---- MODULE Spec2Model ----
(***************************************************************************)
(* Reactors HMI: the protocol worker (opc_worker.py), the protocol client  *)
(* (client.py), the dashboard's request helpers (app.py) and the simulated *)
(* controller (mock_server.py), as one state machine.                      *)
(***************************************************************************)
EXTENDS Integers, Sequences, FiniteSets, TLC

(***************************************************************************)
(* Bounds of the model.                                                    *)
(***************************************************************************)
MaxReqs == 3      \* requests submitted through OpcWorker.request
MaxStops == 1     \* calls of OpcWorker.stop
MaxDrift == 1     \* cycles of the simulated controller's update_loop

(***************************************************************************)
(* Values.  A Python value is a number, a string or None.                  *)
(***************************************************************************)
Num(n) == [num |-> n]
Str(s) == [str |-> s]
NoneVal == [none |-> TRUE]
IsStr(v) == DOMAIN v = {"str"}

\* client.py: METHOD_ENUM and its inverse
METHOD_ENUM == (0 :> "manual") @@ (1 :> "timer") @@ (2 :> "on_boundaries") @@ (3 :> "pid")
METHOD_ENUM_INV ==
  [s \in {METHOD_ENUM[k] : k \in DOMAIN METHOD_ENUM} |->
     CHOOSE k \in DOMAIN METHOD_ENUM : METHOD_ENUM[k] = s]

(***************************************************************************)
(* The controller's address space (mock_server.py build_reactor, R0 with   *)
(* base 1): one sensor channel and one actuator channel stand for the 14   *)
(* sensor and 36 actuator channels of a reactor.                           *)
(***************************************************************************)
SensorNode == "ns=2;i=3"       \* R0:ph:pH, nid(base + 2)
ActuatorNode == "ns=2;i=35"    \* R0:pwm0 ControlMethod.method
SensorNodes == {SensorNode}
ActuatorNodes == {ActuatorNode}
Nodes == SensorNodes \cup ActuatorNodes
ControllerMethods ==
  {"set_pairing", "unpair", "ph:calibration", "do:calibration", "biomass:calibration"}
CtrlInit == (SensorNode :> Num(7)) @@ (ActuatorNode :> Num(1))
DriftValues == {Num(7), Num(8)}

\* A dict is a function whose domain is its key set.
EmptyDict == <<>>
DictSet(d, k, v) == (k :> v) @@ d
DictUpdate(d, e) == e @@ d
\* the dict a sequence of (key, value) pairs builds, later pairs winning
RECURSIVE PairsDict(_)
PairsDict(ps) ==
  IF ps = <<>> THEN EmptyDict
  ELSE DictSet(PairsDict(SubSeq(ps, 1, Len(ps) - 1)), ps[Len(ps)][1], ps[Len(ps)][2])

\* The payloads the dashboard's forms submit: node id -> value, in dict order.
WritePayloads ==
  { << <<ActuatorNode, Str("pid")>> >>,
    << <<SensorNode, Num(8)>>, <<ActuatorNode, Num(0)>> >> }
Kinds == {"connect_browse", "read_snapshot", "write", "call", "bogus"}
\* The calls of OpcWorker.request: kind, payload, and whether the timeout is 0.
\* Every positive timeout is one case: it can expire whenever no reply is there.
Calls ==
  [kind : Kinds \ {"write"}, payload : {<<>>}, timeout0 : {FALSE}]
    \cup [kind : {"write"}, payload : WritePayloads, timeout0 : {FALSE}]
    \cup [kind : {"read_snapshot"}, payload : {<<>>}, timeout0 : {TRUE}]
Callers == {"dashboard"}

VARIABLES
  \* OpcWorker
  _req_q,          \* queue of Request records
  _stop,           \* threading.Event
  wpc,             \* where the worker thread's loop is: off, check, get, await
  tasks,           \* handler coroutines the loop has started and not finished
  client,          \* OpcWorker.client: 0 is None, else an index of clients
  latest_values,   \* OpcWorker.latest_values: a reference into heap
  mappings,        \* OpcWorker.mappings: 0 is {}, else the client whose tables it holds
  \* objects
  heap,            \* dict objects: heap[r] is the content of the dict r
  clients,         \* ReactorOpcClient objects
  reply_qs,        \* reply Queue objects: reply_qs[q] is its content
  \* the controller and its notifications in flight, per client
  ctrl,
  notif,
  \* callers of OpcWorker.request
  caller,          \* per calling thread: its last call of OpcWorker.request
  ret,             \* per calling thread: what its last OpcWorker.request returned
  session,         \* app.py st.session_state: the mappings and last_values it stores
  \* history
  nextRid,         \* requests submitted so far
  started,         \* request ids in the order the worker dequeued them (a stop is 0)
  finished,        \* request ids in the order their handling ended
  applied,         \* per node: the requests whose writes the controller applied, in order
  stops,
  drifts

(***************************************************************************)
(* The persistence layer (db_pg.py, db.py) and its two backends.           *)
(***************************************************************************)
VARIABLES
  HAS_PSYCOPG,     \* db_pg.py: whether `import psycopg` succeeded
  DB_BACKEND,      \* db.py: REACTORS_DB_BACKEND, "postgres" unless set to "sqlite"
  DB_TYPE,         \* app.py: what db_pg.ensure_db() returned, "" before it ran
  pg,              \* the client/server backend: reachable, schema, rows
  sqlite,          \* the embedded backend's file: schema, rows
  last_op,         \* the last operation of the layer and how it ended
  ops,
  flips

dbVars == << HAS_PSYCOPG, DB_BACKEND, DB_TYPE, pg, sqlite, last_op, ops, flips >>

(***************************************************************************)
(* A ReactorOpcClient driven by a script of its own (smoke_test.py,        *)
(* sampler.py), and the controller's address space it talks to.            *)
(***************************************************************************)
VARIABLES
  space,           \* the controller's address space: its nodes
  held,            \* the controller's variables: node id -> value
  rc,              \* the ReactorOpcClient
  inbox,           \* data-change notifications the subscription has not delivered yet
  cb_log,          \* the calls the registered callback has received
  last_write,      \* the last call of write: its arguments and what went to the controller
  nwrites,
  nchanges

apiVars == << space, held, rc, inbox, cb_log, last_write, nwrites, nchanges >>

(***************************************************************************)
(* The window query of the persistence layer, the sampler (sampler.py),    *)
(* the dashboard's script (app.py), its method lookup, and the simulated   *)
(* controller's drift loop (mock_server.py).                               *)
(***************************************************************************)
VARIABLES
  clock,           \* the time datetime.now() gives, in minutes
  samples,         \* the rows of the samples table
  answer,          \* what the last load_timeseries returned
  plant,           \* the controller the sampler polls: node id -> value
  sampler_pc,      \* where sampler.main is
  persisted,       \* the rows the sampler has stored
  dash,            \* the dashboard: its session, its workers, what its runs sent
  fm,              \* find_calibration_method: its arguments and its result
  sim              \* the simulated controller's channels, in thousandths

tsVars == << clock, samples, answer >>
samplerVars == << plant, sampler_pc, persisted >>
moreVars == << tsVars, samplerVars, dash, fm, sim >>
sideVars == << dbVars, apiVars, moreVars >>

\* the worker, its callers and the controller
mainVars == << _req_q, _stop, wpc, tasks, client, latest_values, mappings, heap, clients,
               reply_qs, ctrl, notif, caller, ret, session, nextRid, started, finished,
               applied, stops, drifts >>
vars == << mainVars, sideVars >>

workerVars == << wpc, tasks, client, latest_values, mappings, heap, clients >>
histVars == << started, finished, applied >>

NoResult == [none |-> TRUE]
\* a calling thread: its last request, and whether it still waits for the reply
NoCall == [rid |-> 0, kind |-> "", reply_q |-> 0, timeout0 |-> FALSE, waiting |-> FALSE]

\* opc_worker.py Request; reply_q 0 is None
Request(rid, kind, payload, rq) ==
  [rid |-> rid, kind |-> kind, payload |-> payload, reply_q |-> rq]
StopRequest == Request(0, "stop", <<>>, 0)

\* replies
OkData(rid, d) == [rid |-> rid, ok |-> TRUE, error |-> "", data |-> d, mappings |-> 0]
OkMappings(rid, c) ==
  [rid |-> rid, ok |-> TRUE, error |-> "", data |-> NoneVal, mappings |-> c]
Failure(rid, e) == [rid |-> rid, ok |-> FALSE, error |-> e, data |-> NoneVal, mappings |-> 0]
TimeoutError == "timeout waiting for worker response"

\* a queue that hands out the newest item first
QueuePut_lifo(q, x) == <<x>> \o q

\* queue.Queue: put appends, get takes the head
QueuePut(q, x) == Append(q, x)
QueueHead(q) == Head(q)
QueueRest(q) == Tail(q)

\* app.py: session_state before any button is pressed (last_values is its own {})
NoSession == [mappings |-> 0, last_values |-> [ref |-> 0]]

InitWorker ==
  /\ _req_q = <<>>
  /\ _stop = FALSE
  /\ wpc = "off"
  /\ tasks = {}
  /\ client = 0
  /\ latest_values = 1
  /\ mappings = 0
  /\ heap = << EmptyDict >>
  /\ clients = <<>>
  /\ reply_qs = <<>>
  /\ ctrl = CtrlInit
  /\ notif = <<>>
  /\ caller = [c \in Callers |-> NoCall]
  /\ ret = [c \in Callers |-> NoResult]
  /\ session = NoSession
  /\ nextRid = 0
  /\ started = <<>>
  /\ finished = <<>>
  /\ applied = [n \in Nodes |-> <<>>]
  /\ stops = 0
  /\ drifts = 0

(***************************************************************************)
(* OpcWorker.start: a new thread unless one is alive.                      *)
(***************************************************************************)
start ==
  /\ wpc = "off"
  /\ _stop' = FALSE
  /\ wpc' = "check"
  /\ UNCHANGED << session, sideVars, _req_q, tasks, client, latest_values, mappings, heap, clients, reply_qs,
                  ctrl, notif, caller, ret, nextRid, histVars, stops, drifts >>

(***************************************************************************)
(* OpcWorker.stop: set the event, enqueue a stop request without a reply   *)
(* queue; the join that follows changes nothing.                           *)
(***************************************************************************)
stop ==
  /\ stops < MaxStops
  /\ stops' = stops + 1
  /\ _stop' = TRUE
  /\ _req_q' = QueuePut(_req_q, StopRequest)
  /\ UNCHANGED << session, sideVars, workerVars, reply_qs, ctrl, notif, caller, ret, nextRid,
                  histVars, drifts >>

(***************************************************************************)
(* app.py _rpc + OpcWorker.request, first half: a fresh reply queue, the   *)
(* request is put on the worker's queue, the caller starts to wait.        *)
(***************************************************************************)
\* one reply queue kept for every request
FreshQueue_shared(qs) == 1

\* reply_q = Queue(): a queue no other request holds
FreshQueue(qs) == Len(qs) + 1

_rpc(c, kind, payload, timeout0) ==
  LET rid == nextRid + 1
      rq == FreshQueue(reply_qs)
  IN /\ nextRid < MaxReqs
     /\ ~caller[c].waiting
     /\ nextRid' = rid
     /\ reply_qs' = IF rq > Len(reply_qs) THEN Append(reply_qs, <<>>) ELSE reply_qs
     /\ _req_q' = QueuePut(_req_q, Request(rid, kind, payload, rq))
     /\ caller' = [caller EXCEPT ![c] = [rid |-> rid, kind |-> kind, reply_q |-> rq,
                                         timeout0 |-> timeout0, waiting |-> TRUE]]
     /\ UNCHANGED << session, sideVars, _stop, workerVars, ctrl, notif, ret, histVars, stops, drifts >>

Submit ==
  \E c \in Callers, call \in Calls : _rpc(c, call.kind, call.payload, call.timeout0)

\* a dashboard that stores the mappings of a reply without looking at ok
Stored_unchecked(s, kind, res) ==
  IF kind = "connect_browse" THEN [s EXCEPT !.mappings = res.mappings]
  ELSE IF kind = "read_snapshot" /\ res.ok THEN [s EXCEPT !.last_values = res.data]
  ELSE s

\* app.py, the buttons' handlers: `if res.get("ok")` the mappings of a
\* connect_browse and the data of a read_snapshot are stored in the session
Stored(s, kind, res) ==
  IF kind = "connect_browse" /\ res.ok THEN [s EXCEPT !.mappings = res.mappings]
  ELSE IF kind = "read_snapshot" /\ res.ok THEN [s EXCEPT !.last_values = res.data]
  ELSE s

\* a get without timeout: it waits until a reply is there
request_get_blocking(c) ==
  LET w == caller[c]
      q == reply_qs[w.reply_q]
  IN /\ w.waiting
     /\ q # <<>>
     /\ ret' = [ret EXCEPT ![c] = Head(q)]
     /\ reply_qs' = [reply_qs EXCEPT ![w.reply_q] = Tail(q)]
     /\ caller' = [caller EXCEPT ![c].waiting = FALSE]
     /\ session' = Stored(session, w.kind, ret'[c])
     /\ UNCHANGED << sideVars, _req_q, _stop, workerVars, ctrl, notif, nextRid, histVars, stops,
                     drifts >>

(***************************************************************************)
(* OpcWorker.request, second half: reply_q.get(timeout).  A reply that is  *)
(* already there is returned; otherwise a zero timeout has expired at      *)
(* once, and a positive one may expire at any moment the queue is empty.   *)
(***************************************************************************)
request_get(c) ==
  LET w == caller[c]
      q == reply_qs[w.reply_q]
  IN /\ w.waiting
     /\ IF q # <<>>
          THEN /\ ret' = [ret EXCEPT ![c] = QueueHead(q)]
               /\ reply_qs' = [reply_qs EXCEPT ![w.reply_q] = QueueRest(q)]
          ELSE /\ ret' = [ret EXCEPT ![c] = Failure(w.rid, TimeoutError)]
               /\ UNCHANGED reply_qs
     /\ caller' = [caller EXCEPT ![c].waiting = FALSE]
     /\ session' = Stored(session, w.kind, ret'[c])
     /\ UNCHANGED << sideVars, _req_q, _stop, workerVars, ctrl, notif, nextRid, histVars, stops,
                     drifts >>

CallerGet == \E c \in Callers : request_get(c)

(***************************************************************************)
(* ReactorOpcClient objects.                                               *)
(***************************************************************************)
\* ReactorOpcClient.__init__
NewClient ==
  [connected |-> FALSE, sensor_vars |-> EmptyDict, actuator_vars |-> EmptyDict,
   methods |-> {}, _subscription |-> FALSE, _on_change_cb |-> FALSE]

\* browse_address_space on a reachable controller: the tables are rebuilt from
\* the address space, each channel with the value read at that moment
\* (_browse_reactor registers set_pairing and unpair only).
Browsed(cl) ==
  [cl EXCEPT !.sensor_vars = [n \in SensorNodes |-> ctrl[n]],
             !.actuator_vars = [n \in ActuatorNodes |-> ctrl[n]],
             !.methods = ControllerMethods \cap {"set_pairing", "unpair"}]
\* browse_address_space that fails: the tables were cleared on entry
BrowseFailed(cl) ==
  [cl EXCEPT !.sensor_vars = EmptyDict, !.actuator_vars = EmptyDict, !.methods = {}]

\* ReactorOpcClient.read_snapshot
read_snapshot(cl) == DictUpdate(cl.sensor_vars, cl.actuator_vars)

\* ReactorOpcClient.write: the label translation and the cache update
Translate(v) ==
  IF IsStr(v) /\ v.str \in DOMAIN METHOD_ENUM_INV THEN Num(METHOD_ENUM_INV[v.str]) ELSE v
Cached(cl, n, v) ==
  IF n \in DOMAIN cl.actuator_vars
    THEN [cl EXCEPT !.actuator_vars = DictSet(@, n, v)]
  ELSE IF n \in DOMAIN cl.sensor_vars
    THEN [cl EXCEPT !.sensor_vars = DictSet(@, n, v)]
  ELSE cl

\* The controller queues a data-change notification for every subscription
\* that monitors node n.
Monitors(cl, n) ==
  cl.connected /\ cl._subscription /\ n \in DOMAIN cl.sensor_vars \cup DOMAIN cl.actuator_vars
Notify(cls, nf, n, v) ==
  [c \in DOMAIN nf |-> IF Monitors(cls[c], n) THEN Append(nf[c], <<n, v>>) ELSE nf[c]]

\* The outcomes of a protocol operation on a client: it can always fail, and
\* it can succeed only over a connected session.
Outcomes(cl) == IF cl.connected THEN BOOLEAN ELSE {FALSE}

(***************************************************************************)
(* OpcWorker._main                                                         *)
(***************************************************************************)
Task(req, stage, c, rest) == [req |-> req, stage |-> stage, cl |-> c, rest |-> rest]
ErrorText ==
  [s \in {"connect", "connect_browse", "browse", "subscribe", "write", "call"} |->
     CASE s = "connect" -> "connect failed"
       [] s \in {"connect_browse", "browse"} -> "browse failed"
       [] s = "subscribe" -> "subscribe failed"
       [] s = "write" -> "write failed"
       [] s = "call" -> "call failed"]

\* a _reply that drops failures
_reply_lost(qs, req, res) ==
  IF req.reply_q # 0 /\ res.ok THEN [qs EXCEPT ![req.reply_q] = Append(@, res)] ELSE qs

\* OpcWorker._reply
_reply(qs, req, res) ==
  IF req.reply_q # 0 THEN [qs EXCEPT ![req.reply_q] = QueuePut(@, res)] ELSE qs

\* a loop that starts its handlers without awaiting them
AfterDispatch_nowait(spawned) == "check"

\* `await handler`: the loop goes on only when the handler it started is done
AfterDispatch(spawned) == IF spawned THEN "await" ELSE "check"

\* while not self._stop.is_set()
_main_check ==
  /\ wpc = "check"
  /\ wpc' = IF _stop THEN "off" ELSE "get"
  /\ UNCHANGED << session, sideVars, _req_q, _stop, tasks, client, latest_values, mappings, heap, clients,
                  reply_qs, ctrl, notif, caller, ret, nextRid, histVars, stops,
                  drifts >>

Dequeued(kinds) ==
  /\ wpc = "get"
  /\ _req_q # <<>>
  /\ QueueHead(_req_q).kind \in kinds
  /\ _req_q' = QueueRest(_req_q)
  /\ started' = Append(started, QueueHead(_req_q).rid)

\* a handler that replies before its first suspension
Immediate(req, res) ==
  /\ reply_qs' = _reply(reply_qs, req, res)
  /\ finished' = Append(finished, req.rid)
  /\ wpc' = AfterDispatch(FALSE)
  /\ UNCHANGED tasks

Spawn(req, stage, c, rest) ==
  /\ tasks' = tasks \cup {Task(req, stage, c, rest)}
  /\ wpc' = AfterDispatch(TRUE)
  /\ UNCHANGED << reply_qs, finished >>

\* kind == "stop": _shutdown, then break
_main_stop ==
  /\ Dequeued({"stop"})
  /\ LET req == QueueHead(_req_q) IN
       IF client # 0
         THEN /\ Spawn(req, "disconnect", client, <<>>)
              /\ UNCHANGED client
         ELSE /\ client' = 0
              /\ wpc' = "off"
              /\ finished' = Append(finished, req.rid)
              /\ UNCHANGED << tasks, reply_qs >>
  /\ UNCHANGED << session, sideVars, _stop, latest_values, mappings, heap, clients, ctrl, notif, caller,
                  ret, nextRid, applied, stops, drifts >>

\* kind == "connect_browse": _connect_browse up to `await self.client.connect()`
_main_connect_browse ==
  /\ Dequeued({"connect_browse"})
  /\ clients' = Append(clients, NewClient)
  /\ notif' = Append(notif, <<>>)
  /\ client' = Len(clients) + 1
  /\ Spawn(QueueHead(_req_q), "connect", Len(clients) + 1, <<>>)
  /\ UNCHANGED << session, sideVars, _stop, latest_values, mappings, heap, ctrl, caller, ret, nextRid,
                  applied, stops, drifts >>

\* the dict itself instead of a copy
DictCopy_alias(h, d) == [heap |-> h, ref |-> d]

\* dict(d): a new dict object with the content of d
DictCopy(h, d) == [heap |-> Append(h, h[d]), ref |-> Len(h) + 1]

\* kind in ("read_snapshot", "read_all")
_main_read_snapshot ==
  /\ Dequeued({"read_snapshot", "read_all"})
  /\ LET copy == DictCopy(heap, latest_values) IN
       /\ heap' = copy.heap
       /\ Immediate(QueueHead(_req_q), OkData(QueueHead(_req_q).rid, [ref |-> copy.ref]))
  /\ UNCHANGED << session, sideVars, _stop, client, latest_values, mappings, clients, ctrl, notif, caller,
                  ret, nextRid, applied, stops, drifts >>

\* if not self.client
NotConnected(c) == c = 0

\* kind == "write": _write up to the first write of write_bulk
_main_write ==
  /\ Dequeued({"write"})
  /\ LET req == QueueHead(_req_q) IN
       IF NotConnected(client)
         THEN Immediate(req, Failure(req.rid, "not connected"))
       ELSE IF req.payload = <<>>
         THEN Immediate(req, OkData(req.rid, [writes |-> req.payload]))
       ELSE Spawn(req, "write", client, req.payload)
  /\ UNCHANGED << session, sideVars, _stop, client, latest_values, mappings, heap, clients, ctrl, notif,
                  caller, ret, nextRid, applied, stops, drifts >>

\* kind == "call": _call up to call_method
_main_call ==
  /\ Dequeued({"call"})
  /\ LET req == QueueHead(_req_q) IN
       IF NotConnected(client)
         THEN Immediate(req, Failure(req.rid, "not connected"))
         ELSE Spawn(req, "call", client, <<>>)
  /\ UNCHANGED << session, sideVars, _stop, client, latest_values, mappings, heap, clients, ctrl, notif,
                  caller, ret, nextRid, applied, stops, drifts >>

\* any other kind
_main_unknown ==
  /\ Dequeued({"bogus"})
  /\ Immediate(QueueHead(_req_q), Failure(QueueHead(_req_q).rid, "unknown kind"))
  /\ UNCHANGED << session, sideVars, _stop, client, latest_values, mappings, heap, clients, ctrl, notif,
                  caller, ret, nextRid, applied, stops, drifts >>

(***************************************************************************)
(* The handlers' suspension points.  Each step is one protocol operation   *)
(* completing, with the code that runs up to the next await.               *)
(***************************************************************************)
\* the handler returns res: _reply, and the loop is back at its condition
Return(t, res) ==
  /\ tasks' = tasks \ {t}
  /\ reply_qs' = _reply(reply_qs, t.req, res)
  /\ finished' = Append(finished, t.req.rid)
  /\ wpc' = "check"

\* an exception that escapes _main: no reply, the thread ends
Raise_escapes(t) ==
  /\ tasks' = tasks \ {t}
  /\ finished' = Append(finished, t.req.rid)
  /\ wpc' = "off"
  /\ UNCHANGED reply_qs

\* the handler raises: except Exception in _main
Raise(t) == Return(t, Failure(t.req.rid, ErrorText[t.stage]))

Next_stage(t, stage) ==
  /\ tasks' = (tasks \ {t}) \cup {[t EXCEPT !.stage = stage]}
  /\ UNCHANGED << reply_qs, finished, wpc >>

\* client.connect(): the session opens
connect(t) ==
  /\ t.stage = "connect"
  /\ \E ok \in BOOLEAN :
       IF ok
         THEN /\ clients' = [clients EXCEPT ![t.cl].connected = TRUE]
              /\ Next_stage(t, "connect_browse")
         ELSE /\ Raise(t)
              /\ UNCHANGED clients
  /\ UNCHANGED << session, sideVars, _req_q, _stop, client, latest_values, mappings, heap, ctrl, notif,
                  caller, ret, nextRid, started, applied, stops, drifts >>

\* client.connect(): its own browse_address_space
connect_browse(t) ==
  /\ t.stage = "connect_browse"
  /\ \E ok \in Outcomes(clients[t.cl]) :
       IF ok
         THEN /\ clients' = [clients EXCEPT ![t.cl] = Browsed(@)]
              /\ Next_stage(t, "browse")
         ELSE /\ clients' = [clients EXCEPT ![t.cl] = BrowseFailed(@)]
              /\ Raise(t)
  /\ UNCHANGED << session, sideVars, _req_q, _stop, client, latest_values, mappings, heap, ctrl, notif,
                  caller, ret, nextRid, started, applied, stops, drifts >>

\* self.mappings = await self.client.browse_address_space()
browse_address_space(t) ==
  /\ t.stage = "browse"
  /\ \E ok \in Outcomes(clients[t.cl]) :
       IF ok
         THEN /\ clients' = [clients EXCEPT ![t.cl] = Browsed(@)]
              /\ mappings' = t.cl
              /\ Next_stage(t, "subscribe")
         ELSE /\ clients' = [clients EXCEPT ![t.cl] = BrowseFailed(@)]
              /\ Raise(t)
              /\ UNCHANGED mappings
  /\ UNCHANGED << session, sideVars, _req_q, _stop, client, latest_values, heap, ctrl, notif, caller, ret,
                  nextRid, started, applied, stops, drifts >>

\* a _connect_browse that does not prime the snapshot
Primed_skipped(h, lv, cl) == h

\* the priming of _connect_browse: latest_values.update(read_snapshot())
Primed(h, lv, cl) == [h EXCEPT ![lv] = DictUpdate(@, read_snapshot(cl))]

\* subscribe_data_change: the controller queues the current value of every
\* node that becomes monitored
FirstNotifications(cl) ==
  (IF SensorNode \in DOMAIN cl.sensor_vars THEN << <<SensorNode, ctrl[SensorNode]>> >> ELSE <<>>)
  \o (IF ActuatorNode \in DOMAIN cl.actuator_vars
        THEN << <<ActuatorNode, ctrl[ActuatorNode]>> >> ELSE <<>>)

\* client.init_subscriptions(on_change_cb=on_change), the priming, the reply
init_subscriptions(t) ==
  /\ t.stage = "subscribe"
  /\ \E ok \in Outcomes(clients[t.cl]) :
       IF ok
         THEN /\ clients' = [clients EXCEPT ![t.cl]._subscription = TRUE,
                                            ![t.cl]._on_change_cb = TRUE]
              /\ notif' = [notif EXCEPT ![t.cl] = @ \o FirstNotifications(clients[t.cl])]
              /\ heap' = Primed(heap, latest_values, clients[t.cl])
              /\ Return(t, OkMappings(t.req.rid, mappings))
         ELSE /\ clients' = [clients EXCEPT ![t.cl]._on_change_cb = TRUE]
              /\ Raise(t)
              /\ UNCHANGED << heap, notif >>
  /\ UNCHANGED << session, sideVars, _req_q, _stop, client, latest_values, mappings, ctrl, caller,
                  ret, nextRid, started, applied, stops, drifts >>

\* _write after write_bulk: self.latest_values.update(writes)
Merged(h, lv, writes) == [h EXCEPT ![lv] = DictUpdate(@, PairsDict(writes))]

\* a _write that merges the mapping into the snapshot whether or not write_bulk raised
write_optimistic(t) ==
  /\ t.stage = "write"
  /\ LET n == t.rest[1][1]
         v == Translate(t.rest[1][2])
     IN \E ok \in Outcomes(clients[t.cl]) :
          IF ok
            THEN /\ ctrl' = [ctrl EXCEPT ![n] = v]
                 /\ applied' = [applied EXCEPT ![n] = Append(@, t.req.rid)]
                 /\ notif' = IF ctrl[n] # v THEN Notify(clients, notif, n, v) ELSE notif
                 /\ clients' = [clients EXCEPT ![t.cl] = Cached(@, n, v)]
                 /\ IF Len(t.rest) > 1
                      THEN /\ tasks' = (tasks \ {t}) \cup {[t EXCEPT !.rest = Tail(@)]}
                           /\ UNCHANGED << reply_qs, finished, wpc, heap >>
                      ELSE /\ heap' = Merged(heap, latest_values, t.req.payload)
                           /\ Return(t, OkData(t.req.rid, [writes |-> t.req.payload]))
            ELSE /\ Raise(t)
                 /\ heap' = Merged(heap, latest_values, t.req.payload)
                 /\ UNCHANGED << ctrl, applied, notif, clients >>
  /\ UNCHANGED << session, sideVars, _req_q, _stop, client, latest_values, mappings, caller, ret, nextRid,
                  started, stops, drifts >>

\* client.write of the next pair of write_bulk; after the last one _write
\* merges the mapping into the snapshot and replies
write(t) ==
  /\ t.stage = "write"
  /\ LET n == t.rest[1][1]
         v == Translate(t.rest[1][2])
     IN \E ok \in Outcomes(clients[t.cl]) :
          IF ok
            THEN /\ ctrl' = [ctrl EXCEPT ![n] = v]
                 /\ applied' = [applied EXCEPT ![n] = Append(@, t.req.rid)]
                 /\ notif' = IF ctrl[n] # v THEN Notify(clients, notif, n, v) ELSE notif
                 /\ clients' = [clients EXCEPT ![t.cl] = Cached(@, n, v)]
                 /\ IF Len(t.rest) > 1
                      THEN /\ tasks' = (tasks \ {t}) \cup {[t EXCEPT !.rest = Tail(@)]}
                           /\ UNCHANGED << reply_qs, finished, wpc, heap >>
                      ELSE /\ heap' = Merged(heap, latest_values, t.req.payload)
                           /\ Return(t, OkData(t.req.rid, [writes |-> t.req.payload]))
            ELSE /\ Raise(t)
                 /\ UNCHANGED << ctrl, applied, notif, clients, heap >>
  /\ UNCHANGED << session, sideVars, _req_q, _stop, client, latest_values, mappings, caller, ret, nextRid,
                  started, stops, drifts >>

\* client.call_method
call_method(t) ==
  /\ t.stage = "call"
  /\ \E ok \in Outcomes(clients[t.cl]) :
       IF ok THEN Return(t, OkData(t.req.rid, [out |-> TRUE])) ELSE Raise(t)
  /\ UNCHANGED << session, sideVars, _req_q, _stop, client, latest_values, mappings, heap, clients, ctrl,
                  notif, caller, ret, nextRid, started, applied, stops, drifts >>

\* _shutdown: client.disconnect() with its failure swallowed, client = None, break
_shutdown(t) ==
  /\ t.stage = "disconnect"
  /\ \E ok \in Outcomes(clients[t.cl]) :
       clients' = [clients EXCEPT ![t.cl]._subscription = FALSE,
                                  ![t.cl].connected = IF ok THEN FALSE ELSE @]
  /\ client' = 0
  /\ tasks' = tasks \ {t}
  /\ finished' = Append(finished, t.req.rid)
  /\ wpc' = "off"
  /\ UNCHANGED << session, sideVars, _req_q, _stop, latest_values, mappings, heap, reply_qs, ctrl, notif,
                  caller, ret, nextRid, started, applied, stops, drifts >>

(***************************************************************************)
(* Notifications.  The worker's event loop runs a notification only while  *)
(* _main is suspended.                                                     *)
(***************************************************************************)
\* on_change of _connect_browse
on_change(h, lv, n, v) == [h EXCEPT ![lv] = DictSet(@, n, v)]

\* _SubHandler.datachange_notification -> ReactorOpcClient._handle_change
_handle_change(c) ==
  /\ wpc \in {"get", "await"}
  /\ notif[c] # <<>>
  /\ LET n == notif[c][1][1]
         v == notif[c][1][2]
     IN /\ notif' = [notif EXCEPT ![c] = Tail(@)]
        /\ IF clients[c].connected /\ clients[c]._subscription
             THEN /\ clients' = [clients EXCEPT ![c] = Cached(@, n, v)]
                  /\ heap' = IF clients[c]._on_change_cb
                               THEN on_change(heap, latest_values, n, v) ELSE heap
             ELSE UNCHANGED << clients, heap >>
  /\ UNCHANGED << session, sideVars, _req_q, _stop, wpc, tasks, client, latest_values, mappings, reply_qs,
                  ctrl, caller, ret, nextRid, histVars, stops, drifts >>

\* a drift loop that moves the actuator channels as well
update_loop_actuators ==
  /\ drifts < MaxDrift
  /\ drifts' = drifts + 1
  /\ \E n \in Nodes : \E v \in DriftValues \ {ctrl[n]} :
       /\ ctrl' = [ctrl EXCEPT ![n] = v]
       /\ notif' = Notify(clients, notif, n, v)
  /\ UNCHANGED << session, sideVars, _req_q, _stop, workerVars, reply_qs, caller, ret,
                  nextRid, histVars, stops >>

(***************************************************************************)
(* mock_server.py update_loop: one cycle moves the sensor channels.        *)
(***************************************************************************)
update_loop ==
  /\ drifts < MaxDrift
  /\ drifts' = drifts + 1
  /\ \E v \in DriftValues \ {ctrl[SensorNode]} :
       /\ ctrl' = [ctrl EXCEPT ![SensorNode] = v]
       /\ notif' = Notify(clients, notif, SensorNode, v)
  /\ UNCHANGED << session, sideVars, _req_q, _stop, workerVars, reply_qs, caller, ret, nextRid,
                  histVars, stops >>

\* the persistence layer before any of its modules is imported
NoRows == [experiments |-> 0, samples |-> 0, calibrations |-> 0]
NoOp == [module |-> "", op |-> "", backend |-> "", raised |-> FALSE, rows |-> 0]
IdleStore ==
  /\ HAS_PSYCOPG = FALSE
  /\ DB_BACKEND = "postgres"
  /\ DB_TYPE = ""
  /\ pg = [up |-> FALSE, tables |-> FALSE, rows |-> NoRows]
  /\ sqlite = [tables |-> FALSE, rows |-> NoRows]
  /\ last_op = NoOp
  /\ ops = 0
  /\ flips = 0

\* no script drives a client of its own
NoWrite == [node |-> "", value |-> NoneVal, sent |-> NoneVal, raised |-> FALSE]
\* ReactorOpcClient.__init__, the callback being None, one that returns or one that raises
ScriptClient ==
  [connected |-> FALSE, sensor_vars |-> EmptyDict, actuator_vars |-> EmptyDict,
   methods |-> EmptyDict, _subscription |-> FALSE, _on_change_cb |-> "None"]
IdleClient ==
  /\ space = EmptyDict
  /\ held = EmptyDict
  /\ rc = ScriptClient
  /\ inbox = <<>>
  /\ cb_log = <<>>
  /\ last_write = NoWrite
  /\ nwrites = 0
  /\ nchanges = 0

\* nothing else runs
Unused == [unused |-> TRUE]
IdleQuery == clock = 0 /\ samples = {} /\ answer = Unused
IdleSampler == plant = EmptyDict /\ sampler_pc = "off" /\ persisted = {}
IdleDash == dash = Unused
IdleFind == fm = Unused
IdleDrift == sim = Unused
IdleRest == IdleQuery /\ IdleSampler /\ IdleDash /\ IdleFind /\ IdleDrift

Init == InitWorker /\ IdleStore /\ IdleClient /\ IdleRest

Handler ==
  \E t \in tasks :
    \/ connect(t)
    \/ connect_browse(t)
    \/ browse_address_space(t)
    \/ init_subscriptions(t)
    \/ write(t)
    \/ call_method(t)
    \/ _shutdown(t)

Notification == \E c \in DOMAIN notif : _handle_change(c)

Next ==
  \/ start
  \/ stop
  \/ Submit
  \/ CallerGet
  \/ _main_check
  \/ _main_stop
  \/ _main_connect_browse
  \/ _main_read_snapshot
  \/ _main_write
  \/ _main_call
  \/ _main_unknown
  \/ Handler
  \/ Notification
  \/ update_loop

Spec == Init /\ [][Next]_vars

(***************************************************************************)
(* What a step does, read off the history.                                 *)
(***************************************************************************)
Range(f) == {f[i] : i \in DOMAIN f}
ExceptionTexts == Range(ErrorText)

\* the step dequeues a request / ends the handling of a request
Dequeuing == Len(started') = Len(started) + 1
DequeuedReq == QueueHead(_req_q)
Finishing == Len(finished') = Len(finished) + 1
FinRid == finished'[Len(finished')]
FinReq ==
  CHOOSE r \in {t.req : t \in tasks} \cup (IF _req_q # <<>> THEN {QueueHead(_req_q)} ELSE {}) :
    r.rid = FinRid
\* the replies the step puts on reply queue q
NewReplies(q) ==
  IF Len(reply_qs'[q]) > Len(reply_qs[q])
    THEN SubSeq(reply_qs'[q], Len(reply_qs[q]) + 1, Len(reply_qs'[q]))
    ELSE <<>>
Abandoned(q) == \A c \in Callers : ~(caller[c].waiting /\ caller[c].reply_q = q)

(***************************************************************************)
(* C1 as claimed: every request the worker dequeues, a stop included, gets *)
(* exactly one reply on its reply channel.  A stop request is made without *)
(* a reply queue and the loop breaks without replying to it.               *)
(***************************************************************************)
C1_OneReplyEvenForStop ==
  [][Finishing =>
       \E q \in DOMAIN reply_qs :
         /\ Len(NewReplies(q)) = 1
         /\ \A q2 \in DOMAIN reply_qs \ {q} : NewReplies(q2) = <<>>]_vars

(***************************************************************************)
(* C1 amended: every dequeued request of a kind other than stop gets       *)
(* exactly one reply, put on its own reply channel by the step that ends   *)
(* its handling; no other step puts a reply, no request is handled twice,  *)
(* and a dequeued request is in progress or done.                          *)
(***************************************************************************)
C1_HandledOnce ==
  /\ \A i, j \in DOMAIN finished :
       (i # j /\ finished[i] # 0) => finished[i] # finished[j]
  /\ \A i \in DOMAIN started :
       started[i] # 0 =>
         \/ started[i] \in Range(finished)
         \/ \E t \in tasks : t.req.rid = started[i]
C1_ReplyStep ==
  /\ \A q \in DOMAIN reply_qs :
       NewReplies(q) # <<>> => Finishing /\ FinRid # 0 /\ FinReq.reply_q = q
  /\ (Finishing /\ FinRid # 0) =>
       /\ FinReq.reply_q \in DOMAIN reply_qs
       /\ Len(NewReplies(FinReq.reply_q)) = 1
       /\ NewReplies(FinReq.reply_q)[1].rid = FinRid
C1_ExactlyOneReply == [](C1_HandledOnce) /\ [][C1_ReplyStep]_vars

\* a failed request and a later one are both done, one reply on the failed one's queue
C1_Witness ==
  \E q \in DOMAIN reply_qs :
    /\ Len(reply_qs[q]) = 1
    /\ reply_qs[q][1].error \in ExceptionTexts
    /\ \E i, j \in DOMAIN finished :
         i < j /\ finished[i] = reply_qs[q][1].rid /\ finished[j] # 0

(***************************************************************************)
(* C2: requests are handled in submission order, one after the other (the  *)
(* request ids count the submissions), the controller applies the writes   *)
(* to a node in submission order, and after an acknowledged write the      *)
(* actuator channel holds the value of the latest acknowledged write.      *)
(***************************************************************************)
NonStops(seq) == SelectSeq(seq, LAMBDA r : r # 0)
WriteReply(r) == r # NoResult /\ r.ok /\ DOMAIN r.data = {"writes"}
C2_SubmissionOrder ==
  /\ \A i \in DOMAIN NonStops(started) : NonStops(started)[i] = i
  /\ Len(started) <= Len(finished) + 1
  /\ finished = SubSeq(started, 1, Len(finished))
  /\ \A n \in Nodes : \A i, j \in DOMAIN applied[n] : i < j => applied[n][i] <= applied[n][j]
  /\ \A c \in Callers :
       WriteReply(ret[c]) =>
         \A n \in DOMAIN PairsDict(ret[c].data.writes) \cap ActuatorNodes :
           /\ applied[n] # <<>>
           /\ applied[n][Len(applied[n])] >= ret[c].rid
           /\ applied[n][Len(applied[n])] = ret[c].rid
                => ctrl[n] = Translate(PairsDict(ret[c].data.writes)[n])

\* two writes to the actuator channel were applied, the second one is acknowledged
C2_Witness ==
  \E c \in Callers :
    /\ WriteReply(ret[c])
    /\ Len(applied[ActuatorNode]) = 2
    /\ applied[ActuatorNode][1] < applied[ActuatorNode][2]
    /\ applied[ActuatorNode][2] = ret[c].rid
    /\ ctrl[ActuatorNode] = Translate(PairsDict(ret[c].data.writes)[ActuatorNode])

C4_FailureRepliedLoopAlive ==
  [][/\ (Finishing /\ FinRid # 0) =>
          /\ wpc' = "check"
          /\ \E q \in DOMAIN reply_qs :
               /\ Len(NewReplies(q)) = 1
               /\ NewReplies(q)[1].ok \/ NewReplies(q)[1].error # ""
     /\ (wpc # "off" /\ wpc' = "off") => stops > 0]_vars

\* an exception was replied and a later request has been handled, no stop so far
C4_Witness ==
  /\ stops = 0
  /\ \E c \in Callers :
       /\ ret[c] # NoResult
       /\ ret[c].error \in ExceptionTexts
       /\ \E i \in DOMAIN finished : finished[i] > ret[c].rid

(***************************************************************************)
(* C5 as claimed: once stop() has been called on a worker that holds a     *)
(* connected client and the loop has ended, the session is torn down and   *)
(* the client reference cleared.  When stop() comes while a request is     *)
(* being handled, the loop leaves through its while condition and          *)
(* _shutdown never runs.                                                   *)
(***************************************************************************)
C5_StopTearsDown ==
  (_stop /\ wpc = "off" /\ client # 0) => ~clients[client].connected

(***************************************************************************)
(* C6 as claimed: a request with a zero timeout to a running worker that   *)
(* nobody has stopped always returns the synthesized timeout failure.      *)
(***************************************************************************)
Returning(c) == caller[c].waiting /\ ~caller'[c].waiting
C6_AlwaysTimeoutFailure ==
  [][\A c \in Callers :
       (Returning(c) /\ caller[c].timeout0 /\ wpc # "off" /\ stops = 0)
         => ret'[c] = Failure(caller[c].rid, TimeoutError)]_vars

(***************************************************************************)
(* C6 amended: a request with a zero timeout never blocks, and it returns  *)
(* the synthesized timeout failure or, when the worker has already put the *)
(* reply of that request on its queue, that reply.                         *)
(***************************************************************************)
C6_NeverBlocks ==
  \A c \in Callers : (caller[c].waiting /\ caller[c].timeout0) => ENABLED request_get(c)
C6_ReturnStep ==
  \A c \in Callers :
    (Returning(c) /\ caller[c].timeout0) =>
      \/ /\ reply_qs[caller[c].reply_q] = <<>>
         /\ ret'[c] = Failure(caller[c].rid, TimeoutError)
      \/ /\ reply_qs[caller[c].reply_q] # <<>>
         /\ ret'[c] = reply_qs[caller[c].reply_q][1]
         /\ ret'[c].rid = caller[c].rid
         /\ ret'[c].error # TimeoutError
C6_TimeoutOrOwnReply == [](C6_NeverBlocks) /\ [][C6_ReturnStep]_vars

\* a zero-timeout request has returned the reply the worker made for it
C6_Witness ==
  \E c \in Callers :
    /\ ~caller[c].waiting
    /\ caller[c].timeout0
    /\ ret[c] # NoResult
    /\ ret[c].rid = caller[c].rid
    /\ ret[c].ok

(***************************************************************************)
(* C7: what OpcWorker.request returns for a request is the timeout failure *)
(* or a reply the worker made for that very request, and no reply queue    *)
(* ever holds the replies of two requests.                                 *)
(***************************************************************************)
C7_OwnQueue ==
  \A q \in DOMAIN reply_qs : \A i, j \in DOMAIN reply_qs[q] :
    reply_qs[q][i].rid = reply_qs[q][j].rid
C7_LateReplyDiscarded ==
  [](C7_OwnQueue) /\ [][\A c \in Callers : Returning(c) => ret'[c].rid = caller[c].rid]_vars

\* a late reply lies on its abandoned queue and a later request got its own reply
C7_Witness ==
  \E q \in DOMAIN reply_qs, c \in Callers :
    /\ reply_qs[q] # <<>>
    /\ Abandoned(q)
    /\ ret[c] # NoResult
    /\ ret[c].error # TimeoutError
    /\ ret[c].rid > reply_qs[q][1].rid

(***************************************************************************)
(* C8: a read_snapshot is answered in the step that dequeues it, with a    *)
(* new dict that holds the snapshot of that moment, without any protocol   *)
(* operation; a dict handed out is never the worker's snapshot and its     *)
(* content never changes afterwards.                                       *)
(***************************************************************************)
SnapshotReply(r) == r # NoResult /\ DOMAIN r.data = {"ref"}
HandedOut ==
  {ret[c].data.ref : c \in {x \in Callers : SnapshotReply(ret[x])}}
    \cup UNION {{reply_qs[q][i].data.ref : i \in {k \in DOMAIN reply_qs[q] : SnapshotReply(reply_qs[q][k])}}
                  : q \in DOMAIN reply_qs}
C8_NoAlias == latest_values \notin HandedOut
C8_ReadStep ==
  /\ (Dequeuing /\ DequeuedReq.kind \in {"read_snapshot", "read_all"}) =>
       /\ Finishing
       /\ tasks' = tasks
       /\ UNCHANGED << clients, ctrl, notif >>
       /\ LET r == NewReplies(DequeuedReq.reply_q)[1] IN
            /\ r.ok
            /\ r.data.ref \notin DOMAIN heap
            /\ heap'[r.data.ref] = heap[latest_values]
            /\ heap'[latest_values] = heap[latest_values]
  /\ \A d \in HandedOut : heap'[d] = heap[d]
C8_SnapshotCopy == [](C8_NoAlias) /\ [][C8_ReadStep]_vars

\* the caller holds a snapshot and the worker's snapshot has moved on since
C8_Witness ==
  \E c \in Callers :
    /\ SnapshotReply(ret[c])
    /\ heap[ret[c].data.ref] # EmptyDict
    /\ heap[ret[c].data.ref] # heap[latest_values]

(***************************************************************************)
(* C9 as claimed: a write or call dequeued while the worker has no active  *)
(* session is answered 'not connected' and starts no protocol operation.   *)
(* After a connect_browse that failed, self.client still names the client  *)
(* that never connected, and _write and _call go on to use it.             *)
(***************************************************************************)
ActiveSession == client # 0 /\ clients[client].connected
C9_NotConnectedReply ==
  [][(Dequeuing /\ DequeuedReq.kind \in {"write", "call"} /\ ~ActiveSession) =>
       /\ tasks' = tasks
       /\ NewReplies(DequeuedReq.reply_q)
            = << Failure(DequeuedReq.rid, "not connected") >>]_vars

(***************************************************************************)
(* C10: the step that answers a connect_browse with success leaves in the  *)
(* snapshot an entry for every node of the client's sensor and actuator    *)
(* tables and replies with the tables of that client; every notification   *)
(* delivered to a subscribed client sets the snapshot entry of its node.   *)
(***************************************************************************)
Tables(cl) == DOMAIN cl.sensor_vars \cup DOMAIN cl.actuator_vars
C10_ConnectStep ==
  \A t \in tasks :
    (t.req.kind = "connect_browse" /\ Finishing /\ FinRid = t.req.rid
       /\ NewReplies(t.req.reply_q) # <<>> /\ NewReplies(t.req.reply_q)[1].ok) =>
      /\ Tables(clients'[t.cl]) = Nodes
      /\ Tables(clients'[t.cl]) \subseteq DOMAIN heap'[latest_values]
      /\ \A n \in Tables(clients'[t.cl]) :
           heap'[latest_values][n] = read_snapshot(clients'[t.cl])[n]
      /\ NewReplies(t.req.reply_q)[1].mappings = t.cl
      /\ clients'[t.cl].methods = {"set_pairing", "unpair"}
      /\ client' = t.cl
C10_NotifyStep ==
  \A c \in DOMAIN notif :
    (notif[c] # <<>> /\ notif'[c] = Tail(notif[c])
       /\ clients[c].connected /\ clients[c]._subscription) =>
      /\ notif[c][1][1] \in DOMAIN heap'[latest_values]
      /\ heap'[latest_values][notif[c][1][1]] = notif[c][1][2]
C10_PrimedAndNotified == [][C10_ConnectStep /\ C10_NotifyStep]_vars

\* after a successful connect_browse a notification has moved the snapshot
C10_Witness ==
  /\ \E c \in Callers : ret[c] # NoResult /\ ret[c].ok /\ ret[c].mappings # 0
  /\ drifts > 0
  /\ \A c \in DOMAIN notif : notif[c] = <<>>
  /\ SensorNode \in DOMAIN heap[latest_values]
  /\ heap[latest_values][SensorNode] = ctrl[SensorNode]
  /\ ctrl[SensorNode] # CtrlInit[SensorNode]

(***************************************************************************)
(* C11 as claimed: when the write to one node of a bulk write fails over a *)
(* connected session, the writes to the other nodes of the mapping are     *)
(* still applied to the controller.  write_bulk awaits client.write node   *)
(* by node without a try: the first failure ends the batch and the nodes   *)
(* after it are never written.                                             *)
(***************************************************************************)
C11_BatchNotAborted ==
  [][\A t \in tasks :
       (t.stage = "write" /\ clients[t.cl].connected /\ Finishing /\ FinRid = t.req.rid) =>
         \A i \in 2..Len(t.rest) : t.req.rid \in Range(applied'[t.rest[i][1]])]_vars

(***************************************************************************)
(* C13: the step in which the controller applies a client write sets the   *)
(* node to the value written, a number as it is and the label "pid" as 3,  *)
(* and no other step changes an actuator channel: the drift loop and the   *)
(* notifications leave it alone, so the controller holds the value until   *)
(* the next client write.                                                  *)
(***************************************************************************)
Applying(n) == applied'[n] # applied[n]
Written(v) == IF v = Str("pid") THEN Num(3) ELSE v
C13_WriteStep ==
  \A t \in tasks :
    (t.stage = "write" /\ Applying(t.rest[1][1])) =>
      /\ t.rest[1][2] \in {Str("pid")} \cup {Num(k) : k \in 0..9}
      /\ ctrl'[t.rest[1][1]] = Written(t.rest[1][2])
C13_HeldStep == \A n \in ActuatorNodes : ctrl'[n] # ctrl[n] => Applying(n)
C13_WrittenValueHeld == [][C13_WriteStep /\ C13_HeldStep]_vars

\* "pid" was written and acknowledged, the drift loop has run, the channel holds 3
C13_Witness ==
  /\ drifts > 0
  /\ ctrl[SensorNode] # CtrlInit[SensorNode]
  /\ ctrl[ActuatorNode] = Num(3)
  /\ \E c \in Callers :
       /\ WriteReply(ret[c])
       /\ ret[c].data.writes = << <<ActuatorNode, Str("pid")>> >>

(***************************************************************************)
(* C14: the dashboard stores nothing of a connect_browse that failed (the  *)
(* session's mappings and last_values are the objects they were), and no   *)
(* step of the handling of a connect_browse changes the content of the     *)
(* tables and of the snapshot the session holds.                           *)
(***************************************************************************)
SessionContent ==
  [mappings |-> IF session.mappings = 0 THEN << >>
                ELSE << clients[session.mappings].sensor_vars,
                        clients[session.mappings].actuator_vars,
                        clients[session.mappings].methods >>,
   last_values |-> IF session.last_values.ref = 0 THEN EmptyDict
                   ELSE heap[session.last_values.ref]]
ConnectBrowseStep ==
  \/ Dequeuing /\ DequeuedReq.kind = "connect_browse"
  \/ \E t \in tasks : t.req.kind = "connect_browse" /\ t \notin tasks'
C14_ReturnStep ==
  \A c \in Callers :
    (Returning(c) /\ caller[c].kind = "connect_browse" /\ ~ret'[c].ok) => session' = session
C14_HandlingStep == ConnectBrowseStep => SessionContent' = SessionContent
C14_FailedConnectKeepsSession == [][C14_ReturnStep /\ C14_HandlingStep]_vars

\* the session holds mappings and a snapshot, and a later connect_browse has failed
C14_Witness ==
  /\ session.mappings # 0
  /\ session.last_values.ref # 0
  /\ heap[session.last_values.ref] # EmptyDict
  /\ \E c \in Callers :
       /\ ~caller[c].waiting
       /\ caller[c].kind = "connect_browse"
       /\ ret[c].rid = caller[c].rid
       /\ ret[c].error \in ExceptionTexts
  /\ client # session.mappings

(***************************************************************************)
(* C15 as claimed: when _shutdown has run client.disconnect(), the         *)
(* client's sensor, actuator and method tables are empty and it holds no   *)
(* subscription.  disconnect deletes the subscription and closes the       *)
(* session; it never touches the tables.                                   *)
(***************************************************************************)
C15_DisconnectClears ==
  [][\A t \in tasks :
       (t.stage = "disconnect" /\ t \notin tasks') =>
         /\ ~clients'[t.cl]._subscription
         /\ clients'[t.cl].sensor_vars = EmptyDict
         /\ clients'[t.cl].actuator_vars = EmptyDict
         /\ clients'[t.cl].methods = {}]_vars

(***************************************************************************)
(* The persistence layer: db_pg.py (the client/server backend with a       *)
(* fallback to the embedded one) and db.py (the backend its configuration  *)
(* names), over the two backends they share.                               *)
(***************************************************************************)
MaxOps == 3       \* operations of the persistence layer
MaxFlips == 2     \* times the client/server backend goes away or comes back

\* the table an operation inserts into or selects from
Table ==
  [create_experiment |-> "experiments", insert_sample |-> "samples",
   insert_calibration |-> "calibrations", list_experiments |-> "experiments",
   list_tags |-> "samples", load_timeseries |-> "samples",
   list_calibrations |-> "calibrations"]
Inserts == {"create_experiment", "insert_sample", "insert_calibration"}
Queries == {"list_experiments", "list_tags", "load_timeseries", "list_calibrations"}

\* A process starts with psycopg installed or not and with
\* REACTORS_DB_BACKEND set or not; either backend may hold the schema of an
\* earlier run, and the server may be down.  No worker runs.
InitStore ==
  /\ InitWorker
  /\ IdleClient
  /\ IdleRest
  /\ HAS_PSYCOPG \in BOOLEAN
  /\ DB_BACKEND \in {"postgres", "sqlite"}
  /\ DB_TYPE = ""
  /\ pg \in [up : BOOLEAN, tables : BOOLEAN, rows : {NoRows}]
  /\ sqlite \in [tables : BOOLEAN, rows : {NoRows}]
  /\ last_op = NoOp
  /\ ops = 0
  /\ flips = 0

\* get_pg_conn() and the statements run on it succeed
PgConnects == HAS_PSYCOPG /\ pg.up
PgWorks == PgConnects /\ pg.tables
\* sqlite3.connect(SQLITE_PATH) and the statement run on it succeed
SqliteWorks == sqlite.tables

Inserted(b, t) == [b EXCEPT !.rows[t] = @ + 1]
Ended(m, op, backend, raised, rows) ==
  [module |-> m, op |-> op, backend |-> backend, raised |-> raised, rows |-> rows]
Counted == /\ ops < MaxOps
           /\ ops' = ops + 1

\* db_pg.ensure_db, run by app.py as DB_TYPE = db_pg.ensure_db()
db_pg_ensure_db ==
  /\ Counted
  /\ IF PgConnects
       THEN /\ pg' = [pg EXCEPT !.tables = TRUE]
            /\ DB_TYPE' = "postgres"
            /\ last_op' = Ended("db_pg", "ensure_db", "postgres", FALSE, 0)
            /\ UNCHANGED sqlite
       ELSE /\ sqlite' = [sqlite EXCEPT !.tables = TRUE]
            /\ DB_TYPE' = "sqlite"
            /\ last_op' = Ended("db_pg", "ensure_db", "sqlite", FALSE, 0)
            /\ UNCHANGED pg
  /\ UNCHANGED << mainVars, moreVars, apiVars, HAS_PSYCOPG, DB_BACKEND, flips >>

\* db_pg.create_experiment, insert_sample, insert_calibration: the server is
\* tried on every call; whatever it raises is passed over and the embedded
\* file is written outside any try
db_pg_insert(op) ==
  /\ Counted
  /\ IF PgWorks
       THEN /\ pg' = Inserted(pg, Table[op])
            /\ last_op' = Ended("db_pg", op, "postgres", FALSE, 0)
            /\ UNCHANGED sqlite
     ELSE IF SqliteWorks
       THEN /\ sqlite' = Inserted(sqlite, Table[op])
            /\ last_op' = Ended("db_pg", op, "sqlite", FALSE, 0)
            /\ UNCHANGED pg
     ELSE /\ last_op' = Ended("db_pg", op, "sqlite", TRUE, 0)
          /\ UNCHANGED << pg, sqlite >>
  /\ UNCHANGED << mainVars, moreVars, apiVars, HAS_PSYCOPG, DB_BACKEND, DB_TYPE, flips >>

\* the tag lists load_timeseries is called with
TagLists == {<<>>, <<"R0:ph:pH">>}
\* load_timeseries: `if not tags: return` an empty result, no backend asked
NoTags(op, tags) == op = "load_timeseries" /\ tags = <<>>
\* db_pg.load_timeseries: the IN (...) list is built of %s placeholders when
\* psycopg is installed, and the embedded query is run with that same list
SqliteParses(op) == ~(op = "load_timeseries" /\ HAS_PSYCOPG)
\* db_pg.list_experiments, list_tags, load_timeseries, list_calibrations
db_pg_query(op) ==
  /\ Counted
  /\ \E tags \in TagLists :
       last_op' = IF NoTags(op, tags) THEN Ended("db_pg", op, "none", FALSE, 0)
                  ELSE IF PgWorks
                    THEN Ended("db_pg", op, "postgres", FALSE, pg.rows[Table[op]])
                  ELSE IF SqliteWorks /\ SqliteParses(op)
                    THEN Ended("db_pg", op, "sqlite", FALSE, sqlite.rows[Table[op]])
                  ELSE Ended("db_pg", op, "sqlite", TRUE, 0)
  /\ UNCHANGED << mainVars, moreVars, apiVars, HAS_PSYCOPG, DB_BACKEND, DB_TYPE, pg, sqlite, flips >>

\* db.ensure_db: the backend DB_BACKEND names, no other
db_ensure_db ==
  /\ Counted
  /\ IF DB_BACKEND = "sqlite"
       THEN /\ sqlite' = [sqlite EXCEPT !.tables = TRUE]
            /\ last_op' = Ended("db", "ensure_db", "sqlite", FALSE, 0)
            /\ UNCHANGED pg
       ELSE /\ pg' = IF PgConnects THEN [pg EXCEPT !.tables = TRUE] ELSE pg
            /\ last_op' = Ended("db", "ensure_db", "postgres", ~PgConnects, 0)
            /\ UNCHANGED sqlite
  /\ UNCHANGED << mainVars, moreVars, apiVars, HAS_PSYCOPG, DB_BACKEND, DB_TYPE, flips >>

\* db.create_experiment, insert_sample, insert_calibration
db_insert(op) ==
  /\ Counted
  /\ IF DB_BACKEND = "sqlite"
       THEN /\ sqlite' = IF SqliteWorks THEN Inserted(sqlite, Table[op]) ELSE sqlite
            /\ last_op' = Ended("db", op, "sqlite", ~SqliteWorks, 0)
            /\ UNCHANGED pg
       ELSE /\ pg' = IF PgWorks THEN Inserted(pg, Table[op]) ELSE pg
            /\ last_op' = Ended("db", op, "postgres", ~PgWorks, 0)
            /\ UNCHANGED sqlite
  /\ UNCHANGED << mainVars, moreVars, apiVars, HAS_PSYCOPG, DB_BACKEND, DB_TYPE, flips >>

\* db.list_experiments, list_tags, load_timeseries, list_calibrations: the
\* embedded branch returns [] on any exception, the server branch has no try
db_query(op) ==
  /\ Counted
  /\ \E tags \in TagLists :
       last_op' = IF NoTags(op, tags) THEN Ended("db", op, "none", FALSE, 0)
                  ELSE IF DB_BACKEND = "sqlite"
                    THEN Ended("db", op, "sqlite", FALSE,
                               IF SqliteWorks THEN sqlite.rows[Table[op]] ELSE 0)
                  ELSE Ended("db", op, "postgres", ~PgWorks,
                             IF PgWorks THEN pg.rows[Table[op]] ELSE 0)
  /\ UNCHANGED << mainVars, moreVars, apiVars, HAS_PSYCOPG, DB_BACKEND, DB_TYPE, pg, sqlite, flips >>

\* the server goes away or comes back
pg_flip ==
  /\ flips < MaxFlips
  /\ flips' = flips + 1
  /\ pg' = [pg EXCEPT !.up = ~@]
  /\ UNCHANGED << mainVars, moreVars, apiVars, HAS_PSYCOPG, DB_BACKEND, DB_TYPE, sqlite, last_op, ops >>

db_pg_inserts == \E op \in Inserts : db_pg_insert(op)
db_pg_queries == \E op \in Queries : db_pg_query(op)
db_inserts == \E op \in Inserts : db_insert(op)
db_queries == \E op \in Queries : db_query(op)

StoreNext ==
  \/ db_pg_ensure_db
  \/ db_pg_inserts
  \/ db_pg_queries
  \/ db_ensure_db
  \/ db_inserts
  \/ db_queries
  \/ pg_flip

StoreSpec == InitStore /\ [][StoreNext]_vars

\* the step is an operation of the persistence layer
OpStep == ops' = ops + 1

(***************************************************************************)
(* C18 as claimed: once db_pg.ensure_db has fallen back to the embedded    *)
(* backend, every later operation of db_pg uses the embedded backend.      *)
(* Each function of db_pg tries the server again on every call, so an      *)
(* operation after the server has come back is served by the server.       *)
(***************************************************************************)
C18_FallbackIsFinal ==
  [][(DB_TYPE = "sqlite" /\ OpStep /\ last_op'.module = "db_pg"
        /\ last_op'.op # "ensure_db")
       => last_op'.backend \in {"sqlite", "none"}]_vars

(***************************************************************************)
(* C19 as claimed: list_experiments, list_tags, load_timeseries and        *)
(* list_calibrations never raise, whatever error the backend reports.  In  *)
(* db_pg the embedded query that follows a failed server query is outside  *)
(* any try, and in db the server branch has no try at all.                 *)
(***************************************************************************)
C19_QueriesNeverRaise ==
  [][(OpStep /\ last_op'.op \in Queries) => ~last_op'.raised]_vars

(***************************************************************************)
(* C20 as claimed: once db_pg.ensure_db has returned, insert_sample and    *)
(* create_experiment of db_pg never raise.  After ensure_db has set up the *)
(* server alone, an outage sends the insert to an embedded file that has   *)
(* no schema, and that insert is outside any try.                          *)
(***************************************************************************)
C20_InsertNeverRaises ==
  [][(DB_TYPE # "" /\ OpStep /\ last_op'.module = "db_pg"
        /\ last_op'.op \in {"insert_sample", "create_experiment"})
       => ~last_op'.raised]_vars

(***************************************************************************)
(* ReactorOpcClient called directly, over the whole address space the      *)
(* simulated controller builds for its reactors.                           *)
(***************************************************************************)
MaxReactors == 2   \* reactors the controller exposes
MaxWrites == 1     \* calls of ReactorOpcClient.write
MaxChanges == 2    \* value changes made on the controller's side

\* mock_server.py nid(i), as the string node.nodeid.to_string() gives
nid(i) == "ns=2;i=" \o ToString(i)
ObjectsFolder == "i=85"
Node(i, parent, name, cls, value) ==
  [id |-> i, parent |-> parent, name |-> name, cls |-> cls, value |-> value]
\* A browse name is the sequence of its colon-separated segments.
Last(s) == s[Len(s)]
RECURSIVE Joined(_)
Joined(s) ==
  IF Len(s) = 1 THEN s[1] ELSE Joined(SubSeq(s, 1, Len(s) - 1)) \o ":" \o Last(s)

biomass_channels == <<"415", "445", "480", "515", "555", "590", "630", "680", "clear", "nir">>
\* the variables of a pwm group in the order of their node ids: name, whether
\* it hangs under ControlMethod (else under the pwm object), initial value
pwm_fields ==
  << <<"value", TRUE, Num(0)>>, <<"curr_value", FALSE, Num(0)>>, <<"method", TRUE, Num(1)>>,
     <<"time_on", TRUE, Num(0)>>, <<"time_off", TRUE, Num(0)>>, <<"lb", TRUE, Num(0)>>,
     <<"ub", TRUE, Num(100)>>, <<"setpoint", TRUE, Num(50)>> >>
PwmGroups == {"pwm0", "pwm1", "pwm2", "pwm3"}
\* build_reactor: the pwm object p, its ControlMethod object and their variables
build_pwm(reactor, base, p) ==
  LET first == base + 30 + 11 * p
      pwm == nid(first)
      cm == nid(first + 1)
  IN {Node(pwm, nid(base), <<reactor, "pwm" \o ToString(p)>>, "Object", NoneVal),
      Node(cm, pwm, <<"ControlMethod">>, "Object", NoneVal),
      Node(nid(first + 10), cm, <<"reference_sensor">>, "Variable",
           Str(reactor \o ":biomass:415"))}
     \cup {Node(nid(first + 1 + k), IF pwm_fields[k][2] THEN cm ELSE pwm,
                <<pwm_fields[k][1]>>, "Variable", pwm_fields[k][3]) : k \in 1..8}
\* build_reactor: the methods, whose node ids the server allocates
reactor_methods ==
  << <<"set_pairing">>, <<"unpair">>, <<"ph", "calibration">>, <<"do", "calibration">>,
     <<"biomass", "calibration">> >>
build_reactor(reactor, base) ==
  {Node(nid(base), ObjectsFolder, <<reactor>>, "Object", NoneVal),
   Node(nid(base + 1), nid(base), <<reactor, "ph">>, "Object", NoneVal),
   Node(nid(base + 2), nid(base + 1), <<reactor, "ph", "pH">>, "Variable", Num(7)),
   Node(nid(base + 3), nid(base + 1), <<reactor, "ph", "oC">>, "Variable", Num(25)),
   Node(nid(base + 4), nid(base), <<reactor, "do">>, "Object", NoneVal),
   Node(nid(base + 5), nid(base + 4), <<reactor, "do", "ppm">>, "Variable", Num(8)),
   Node(nid(base + 6), nid(base + 4), <<reactor, "do", "oC">>, "Variable", Num(25)),
   Node(nid(base + 7), nid(base), <<reactor, "biomass">>, "Object", NoneVal)}
  \cup {Node(nid(base + 8 + idx), nid(base + 7), <<reactor, "biomass", biomass_channels[idx + 1]>>,
             "Variable", Num(0)) : idx \in 0..9}
  \cup UNION {build_pwm(reactor, base, p) : p \in 0..3}
  \cup {Node(nid(base + 500 + k), nid(base), reactor_methods[k], "Method", NoneVal) : k \in 1..5}
\* the EnumStrings property a controller may attach to the method channel's
\* ControlMethod object (the one _browse_pwm passes over)
EnumStrings(base) ==
  {Node(nid(base + 600 + p), nid(base + 30 + 11 * p + 1), <<"EnumStrings">>, "Variable",
        Str("manual,timer,on_boundaries,pid")) : p \in 0..3}
\* main: the Objects folder with the Server object and reactors R0.., bases 1, 1001, ..
AddressSpace(count, enum) ==
  {Node("i=2253", ObjectsFolder, <<"Server">>, "Object", NoneVal)}
  \cup UNION {build_reactor("R" \o ToString(r), 1000 * r + 1) : r \in 0..(count - 1)}
  \cup (IF enum THEN UNION {EnumStrings(1000 * r + 1) : r \in 0..(count - 1)} ELSE {})
Shape(n) == [id |-> n.id, parent |-> n.parent, name |-> n.name, cls |-> n.cls]
\* the address space by node id, and the values its variables start with
ById(nodes) == [k \in {n.id : n \in nodes} |-> Shape(CHOOSE n \in nodes : n.id = k)]
InitialValues(nodes) ==
  [k \in {n.id : n \in {m \in nodes : m.cls = "Variable"}} |->
     (CHOOSE n \in nodes : n.id = k).value]

\* node.get_children() and node.read_value(), None standing for a failed read
Children(sp, p) == {k \in DOMAIN sp : sp[k].parent = p}
read_value(h, n) == IF n \in DOMAIN h THEN h[n] ELSE NoneVal
Info(reactor, name, channel, value) ==
  [reactor |-> reactor, name |-> name, channel |-> channel, value |-> value]
\* the dict that a set of dicts over different keys fills
RECURSIVE DictUnion(_)
DictUnion(ds) ==
  IF ds = {} THEN EmptyDict
  ELSE LET d == CHOOSE x \in ds : TRUE IN DictUpdate(DictUnion(ds \ {d}), d)

\* ReactorOpcClient._browse_sensor_group
_browse_sensor_group(sp, h, reactor, group, group_node) ==
  [v \in Children(sp, group_node) |->
     Info(reactor, group, Last(sp[v].name), read_value(h, v))]
\* ReactorOpcClient._browse_biomass
_browse_biomass(sp, h, reactor, group_node) ==
  [v \in Children(sp, group_node) |->
     Info(reactor, "biomass", Last(sp[v].name), read_value(h, v))]
\* a browse of a pwm group that records every child of ControlMethod
_browse_pwm_every_child(sp, h, reactor, group, pwm_node) ==
  LET kids == Children(sp, pwm_node)
      ctrls == {ch \in kids : sp[ch].name = <<"ControlMethod">>}
      ctrl_kids == IF ctrls = {} THEN {} ELSE Children(sp, CHOOSE c \in ctrls : TRUE)
  IN DictUpdate(
       [ch \in {k \in kids : sp[k].name = <<"curr_value">>} |->
          Info(reactor, group, "curr_value", read_value(h, ch))],
       [v \in ctrl_kids |-> Info(reactor, group, Joined(sp[v].name), read_value(h, v))])
\* ReactorOpcClient._browse_pwm
_browse_pwm(sp, h, reactor, group, pwm_node) ==
  LET kids == Children(sp, pwm_node)
      ctrls == {ch \in kids : sp[ch].name = <<"ControlMethod">>}
      ctrl_kids == IF ctrls = {} THEN {} ELSE Children(sp, CHOOSE c \in ctrls : TRUE)
  IN DictUpdate(
       [ch \in {k \in kids : sp[k].name = <<"curr_value">>} |->
          Info(reactor, group, "curr_value", read_value(h, ch))],
       [v \in {k \in ctrl_kids : Joined(sp[k].name) # "EnumStrings"} |->
          Info(reactor, group, Joined(sp[v].name), read_value(h, v))])
\* ReactorOpcClient._browse_reactor: key.endswith(":g") is a name of two or more
\* segments whose last is g; ":pwm" in key is a later segment that begins with pwm
_browse_reactor(sp, h, reactor, reactor_node) ==
  LET children == Children(sp, reactor_node)
      EndsWith(n, g) == Len(sp[n].name) >= 2 /\ Last(sp[n].name) = g
      IsSensor(n) == EndsWith(n, "ph") \/ EndsWith(n, "do") \/ EndsWith(n, "biomass")
      IsPwm(n) == ~IsSensor(n) /\ \E i \in 2..Len(sp[n].name) : sp[n].name[i] \in PwmGroups
  IN [sensor_vars |->
        DictUnion(
          {_browse_sensor_group(sp, h, reactor, "ph", n) :
             n \in {c \in children : EndsWith(c, "ph")}}
          \cup {_browse_sensor_group(sp, h, reactor, "do", n) :
             n \in {c \in children : ~EndsWith(c, "ph") /\ EndsWith(c, "do")}}
          \cup {_browse_biomass(sp, h, reactor, n) :
             n \in {c \in children : ~EndsWith(c, "ph") /\ ~EndsWith(c, "do")
                                      /\ EndsWith(c, "biomass")}}),
      actuator_vars |->
        DictUnion({_browse_pwm(sp, h, reactor, Last(sp[n].name), n) :
                     n \in {c \in children : IsPwm(c)}}),
      methods |->
        [n \in {c \in children : Joined(sp[c].name) \in {"set_pairing", "unpair"}} |->
           Info(reactor, Joined(sp[n].name), "", NoneVal)]]
\* ReactorOpcClient.browse_address_space: the three tables rebuilt
Discovered(sp, h) ==
  LET reactors == {n \in Children(sp, ObjectsFolder) :
                     Joined(sp[n].name) \in {"R0", "R1", "R2"}}
      parts == {_browse_reactor(sp, h, Joined(sp[n].name), n) : n \in reactors}
  IN [sensor_vars |-> DictUnion({p.sensor_vars : p \in parts}),
      actuator_vars |-> DictUnion({p.actuator_vars : p \in parts}),
      methods |-> DictUnion({p.methods : p \in parts})]

\* The calls a script makes: the callbacks it registers, the writes it issues,
\* and the changes made on the controller's side.
Callbacks == {"None", "returns", "raises"}
WriteTargets == {nid(35), nid(3), nid(999)}   \* R0 pwm0 method, R0 pH, no such node
WriteValues == {Str("pid"), Num(2)}
ChangeTargets == {nid(3), nid(35)}
ChangeValues == {Num(8)}

ClientInit ==
  /\ InitWorker
  /\ IdleStore
  /\ IdleRest
  /\ \E count \in 1..MaxReactors, enum \in BOOLEAN :
       /\ space = ById(AddressSpace(count, enum))
       /\ held = InitialValues(AddressSpace(count, enum))
  /\ rc = ScriptClient
  /\ inbox = <<>>
  /\ cb_log = <<>>
  /\ last_write = NoWrite
  /\ nwrites = 0
  /\ nchanges = 0

\* the controller queues a data-change notification for a monitored node
Monitored(cl, n) ==
  cl._subscription /\ n \in DOMAIN cl.sensor_vars \cup DOMAIN cl.actuator_vars
Queued(q, cl, n, v) == IF Monitored(cl, n) THEN Append(q, <<n, v>>) ELSE q

\* ReactorOpcClient.connect, which browses
ReactorOpcClient_connect ==
  /\ ~rc.connected
  /\ LET d == Discovered(space, held)
     IN rc' = [rc EXCEPT !.connected = TRUE, !.sensor_vars = d.sensor_vars,
                         !.actuator_vars = d.actuator_vars, !.methods = d.methods]
  /\ UNCHANGED << mainVars, moreVars, dbVars, space, held, inbox, cb_log, last_write, nwrites, nchanges >>

\* ReactorOpcClient.browse_address_space
ReactorOpcClient_browse_address_space ==
  /\ rc.connected
  /\ LET d == Discovered(space, held)
     IN rc' = [rc EXCEPT !.sensor_vars = d.sensor_vars,
                         !.actuator_vars = d.actuator_vars, !.methods = d.methods]
  /\ UNCHANGED << mainVars, moreVars, dbVars, space, held, inbox, cb_log, last_write, nwrites, nchanges >>

\* ReactorOpcClient.init_subscriptions
ReactorOpcClient_init_subscriptions ==
  /\ rc.connected
  /\ ~rc._subscription
  /\ \E cb \in Callbacks : rc' = [rc EXCEPT !._on_change_cb = cb, !._subscription = TRUE]
  /\ UNCHANGED << mainVars, moreVars, dbVars, space, held, inbox, cb_log, last_write, nwrites, nchanges >>

\* ReactorOpcClient.write: the cache update, the actuator table looked up first
Recorded(cl, n, v) ==
  IF n \in DOMAIN cl.actuator_vars
    THEN [cl EXCEPT !.actuator_vars[n].value = v]
  ELSE IF n \in DOMAIN cl.sensor_vars
    THEN [cl EXCEPT !.sensor_vars[n].value = v]
  ELSE cl
\* ReactorOpcClient.write
ReactorOpcClient_write ==
  /\ rc.connected
  /\ nwrites < MaxWrites
  /\ nwrites' = nwrites + 1
  /\ \E n \in WriteTargets, v \in WriteValues :
       LET sent == Translate(v)
       IN IF n \in DOMAIN held
            THEN /\ held' = [held EXCEPT ![n] = sent]
                 /\ inbox' = Queued(inbox, rc, n, sent)
                 /\ rc' = Recorded(rc, n, sent)
                 /\ last_write' = [node |-> n, value |-> v, sent |-> sent, raised |-> FALSE]
            ELSE /\ last_write' = [node |-> n, value |-> v, sent |-> NoneVal, raised |-> TRUE]
                 /\ UNCHANGED << held, inbox, rc >>
  /\ UNCHANGED << mainVars, moreVars, dbVars, space, cb_log, nchanges >>

\* a value of the controller changes: its update_loop, or another client's write
controller_change ==
  /\ nchanges < MaxChanges
  /\ nchanges' = nchanges + 1
  /\ \E n \in ChangeTargets \cap DOMAIN held, v \in ChangeValues :
       /\ held[n] # v
       /\ held' = [held EXCEPT ![n] = v]
       /\ inbox' = Queued(inbox, rc, n, v)
  /\ UNCHANGED << mainVars, moreVars, dbVars, space, rc, cb_log, last_write, nwrites >>

\* the value the callback finds in the client's tables when it is invoked
CacheValue(cl, n) ==
  IF n \in DOMAIN cl.sensor_vars THEN cl.sensor_vars[n].value
  ELSE IF n \in DOMAIN cl.actuator_vars THEN cl.actuator_vars[n].value
  ELSE NoneVal
Invocation(cl, n, v) ==
  [node |-> n, value |-> v, seen |-> CacheValue(cl, n), raised |-> cl._on_change_cb = "raises"]
\* _handle_change, the sensor table looked up first
Noted(cl, n, v) ==
  IF n \in DOMAIN cl.sensor_vars
    THEN [cl EXCEPT !.sensor_vars[n].value = v]
  ELSE IF n \in DOMAIN cl.actuator_vars
    THEN [cl EXCEPT !.actuator_vars[n].value = v]
  ELSE cl
\* a handler that invokes the callback before it updates the cache, so that a
\* callback that raises leaves the cache as it was
ReactorOpcClient__handle_change_callback_first(cl, n, v) ==
  IF cl._on_change_cb = "None" THEN [cl |-> Noted(cl, n, v), calls |-> <<>>]
  ELSE [cl |-> IF cl._on_change_cb = "raises" THEN cl ELSE Noted(cl, n, v),
        calls |-> << Invocation(cl, n, v) >>]
\* ReactorOpcClient._handle_change: the client after it and the callback's invocations
ReactorOpcClient__handle_change(cl, n, v) ==
  [cl |-> Noted(cl, n, v),
   calls |-> IF cl._on_change_cb = "None" THEN <<>> ELSE << Invocation(Noted(cl, n, v), n, v) >>]
\* _SubHandler.datachange_notification
datachange_notification ==
  /\ inbox # <<>>
  /\ inbox' = Tail(inbox)
  /\ LET r == ReactorOpcClient__handle_change(rc, inbox[1][1], inbox[1][2])
     IN /\ rc' = r.cl
        /\ cb_log' = cb_log \o r.calls
  /\ UNCHANGED << mainVars, moreVars, dbVars, space, held, last_write, nwrites, nchanges >>

\* ReactorOpcClient.disconnect: the subscription deleted, the session closed
ReactorOpcClient_disconnect ==
  /\ rc.connected
  /\ rc' = [rc EXCEPT !._subscription = FALSE, !.connected = FALSE]
  /\ inbox' = <<>>
  /\ UNCHANGED << mainVars, moreVars, dbVars, space, held, cb_log, last_write, nwrites, nchanges >>

ClientNext ==
  \/ ReactorOpcClient_connect
  \/ ReactorOpcClient_browse_address_space
  \/ ReactorOpcClient_init_subscriptions
  \/ ReactorOpcClient_write
  \/ controller_change
  \/ datachange_notification
  \/ ReactorOpcClient_disconnect

ClientSpec == ClientInit /\ [][ClientNext]_vars

\* C12: write translates a value to its integer code exactly when the target
\* is an actuator method channel and the value is one of the four labels; any
\* other value, and any value for another node, reaches the controller as passed.
IsMethodChannel(n) == n \in DOMAIN space /\ space[n].name = <<"method">>
Intended(n, v) ==
  IF IsMethodChannel(n) /\ IsStr(v) /\ v.str \in {"manual", "timer", "on_boundaries", "pid"}
    THEN Num(CHOOSE k \in 0..3 : <<"manual", "timer", "on_boundaries", "pid">>[k + 1] = v.str)
    ELSE v
C12_TranslatesOnlyMethodLabels ==
  [][(nwrites' = nwrites + 1 /\ ~last_write'.raised)
       => LET w == last_write'
          IN w.sent = Intended(w.node, w.value) /\ held'[w.node] = w.sent]_vars

\* C16: a change notification first updates the cached value of the notified
\* node in the sensor or actuator table, then invokes the registered callback
\* with (node id, new value); a callback that raises is swallowed: the cache is
\* updated all the same and each later notification is delivered to the callback.
Delivering == inbox # <<>> /\ inbox' = Tail(inbox) /\ rc'.connected = rc.connected
Notified == inbox[1]
C16_CacheStep ==
  Delivering =>
    /\ Notified[1] \in DOMAIN rc.sensor_vars => rc'.sensor_vars[Notified[1]].value = Notified[2]
    /\ Notified[1] \in DOMAIN rc.actuator_vars => rc'.actuator_vars[Notified[1]].value = Notified[2]
C16_CallbackStep ==
  Delivering =>
    IF rc._on_change_cb = "None" THEN cb_log' = cb_log
    ELSE /\ Len(cb_log') = Len(cb_log) + 1
         /\ SubSeq(cb_log', 1, Len(cb_log)) = cb_log
         /\ Last(cb_log').node = Notified[1]
         /\ Last(cb_log').value = Notified[2]
         /\ Last(cb_log').seen = Notified[2]
C16_NotificationHandled == [][C16_CacheStep /\ C16_CallbackStep]_vars

\* C16 witness: the callback raised on one notification, was invoked again on
\* the next, and the cache holds the value of that later notification
C16_Witness ==
  /\ Len(cb_log) >= 2
  /\ cb_log[1].raised
  /\ cb_log[2].node # cb_log[1].node
  /\ CacheValue(rc, cb_log[1].node) = cb_log[1].value
  /\ CacheValue(rc, cb_log[2].node) = cb_log[2].value

\* C17: for the address space the simulated controller builds, a browse
\* records per reactor exactly 14 sensor channels (2 ph, 2 do, 10 biomass) and
\* 36 actuator channels (4 pwm groups of curr_value and 8 ControlMethod
\* fields, EnumStrings left out), 28 and 72 for two reactors, each under the
\* reactor, group and channel label it has on the controller.
NodeOf(k) == space[k]
\* the reactor, group and channel of a variable on the controller
ControllerLabel(k) ==
  LET n == NodeOf(k)
      p == NodeOf(n.parent)
      g == IF p.name = <<"ControlMethod">> THEN NodeOf(p.parent) ELSE p
  IN IF Len(n.name) = 3 THEN n.name ELSE <<g.name[1], g.name[2], n.name[1]>>
Reactors == {space[k].name[1] : k \in Children(space, ObjectsFolder)} \ {"Server"}
Within(t, r, g) == {k \in DOMAIN t : t[k].reactor = r /\ t[k].name = g}
ControlFields ==
  {"value", "method", "time_on", "time_off", "lb", "ub", "setpoint", "reference_sensor"}
C17_BrowseCounts ==
  rc.connected =>
    /\ \A r \in Reactors :
         /\ Cardinality(Within(rc.sensor_vars, r, "ph")) = 2
         /\ Cardinality(Within(rc.sensor_vars, r, "do")) = 2
         /\ Cardinality(Within(rc.sensor_vars, r, "biomass")) = 10
         /\ Cardinality({k \in DOMAIN rc.sensor_vars : rc.sensor_vars[k].reactor = r}) = 14
         /\ \A g \in PwmGroups :
              {rc.actuator_vars[k].channel : k \in Within(rc.actuator_vars, r, g)}
                = {"curr_value"} \cup ControlFields
         /\ \A g \in PwmGroups : Cardinality(Within(rc.actuator_vars, r, g)) = 9
         /\ Cardinality({k \in DOMAIN rc.actuator_vars : rc.actuator_vars[k].reactor = r}) = 36
    /\ Cardinality(DOMAIN rc.sensor_vars) = 14 * Cardinality(Reactors)
    /\ Cardinality(DOMAIN rc.actuator_vars) = 36 * Cardinality(Reactors)
    /\ \A k \in DOMAIN rc.sensor_vars :
         <<rc.sensor_vars[k].reactor, rc.sensor_vars[k].name, rc.sensor_vars[k].channel>>
           = ControllerLabel(k)
    /\ \A k \in DOMAIN rc.actuator_vars :
         <<rc.actuator_vars[k].reactor, rc.actuator_vars[k].name, rc.actuator_vars[k].channel>>
           = ControllerLabel(k)

\* C17 witness: two reactors whose ControlMethod objects carry EnumStrings,
\* browsed: 28 sensor channels and 72 actuator channels
C17_Witness ==
  /\ rc.connected
  /\ Reactors = {"R0", "R1"}
  /\ \E k \in DOMAIN space : space[k].name = <<"EnumStrings">>
  /\ Cardinality(DOMAIN rc.sensor_vars) = 28
  /\ Cardinality(DOMAIN rc.actuator_vars) = 72

(***************************************************************************)
(* C21 as claimed: with the client/server backend unreachable from the     *)
(* start of the process, db_pg.ensure_db, create_experiment, insert_sample,*)
(* insert_calibration and every read complete against the embedded backend *)
(* without raising, and a read returns the rows inserted.  With psycopg    *)
(* installed and the server down, load_timeseries hands the embedded       *)
(* backend a query whose IN list holds %s placeholders, and raises.        *)
(***************************************************************************)
Unreachable == ~HAS_PSYCOPG \/ (~pg.up /\ flips = 0)
C21_EmbeddedServesAll ==
  [][(Unreachable /\ OpStep /\ last_op'.module = "db_pg" /\ DB_TYPE' = "sqlite")
       => /\ ~last_op'.raised
          /\ last_op'.backend \in {"sqlite", "none"}
          /\ (last_op'.op \in Queries /\ last_op'.backend = "sqlite")
               => last_op'.rows = sqlite.rows[Table[last_op'.op]]]_vars

(***************************************************************************)
(* load_timeseries (db_pg.py and db.py alike): the rows of the samples     *)
(* table that a window query returns.  Time is counted in minutes.         *)
(***************************************************************************)
\* datetime.now(timezone.utc) when the query runs
Now == 10
\* the rows a samples table may hold: experiment, tag, timestamp
SampleRows ==
  [exp : {1}, tag : {"R0:ph:pH", "R0:do:ppm"}, ts : {Now - 10, Now - 5, Now + 1}]
  \cup [exp : {2}, tag : {"R0:ph:pH"}, ts : {Now - 5}]
Windows == {6, 15}
TagQueries == {<<>>, <<"R0:ph:pH">>, <<"R0:ph:pH", "R0:do:ppm">>}

QueryInit ==
  /\ InitWorker
  /\ IdleStore
  /\ IdleClient
  /\ IdleSampler
  /\ IdleDash
  /\ IdleFind
  /\ IdleDrift
  /\ clock = Now
  /\ samples \in SUBSET SampleRows
  /\ answer = Unused

\* ORDER BY ts_utc ASC: the orders of a set of rows by ascending timestamp
RECURSIVE Ascending(_)
Ascending(rows) ==
  IF rows = {} THEN { <<>> }
  ELSE UNION { { <<r>> \o t : t \in Ascending(rows \ {r}) } :
               r \in {x \in rows : \A y \in rows : x.ts <= y.ts} }
\* WHERE experiment_id = ? AND ts_utc >= cutoff AND tag IN (tags), the cutoff
\* being now - minutes
Selected(rows, t, exp, tags, minutes) ==
  {r \in rows : /\ r.exp = exp
                /\ r.ts >= t - minutes
                /\ \E i \in DOMAIN tags : tags[i] = r.tag}
\* load_timeseries
load_timeseries ==
  /\ \E exp \in {1, 2}, tags \in TagQueries, minutes \in Windows :
       \E rows \in Ascending(IF tags = <<>> THEN {}
                             ELSE Selected(samples, clock, exp, tags, minutes)) :
         answer' = [exp |-> exp, tags |-> tags, minutes |-> minutes, rows |-> rows]
  /\ UNCHANGED << mainVars, dbVars, apiVars, samplerVars, dash, fm, sim, clock, samples >>

QueryNext == load_timeseries
QuerySpec == QueryInit /\ [][QueryNext]_vars

(***************************************************************************)
(* C22 as claimed: load_timeseries(experiment, tags, window) evaluated at  *)
(* time T returns exactly the samples of that experiment with one of those *)
(* tags stamped between T - window and T, in ascending order of timestamp; *)
(* a sample stamped before T - window or after T is left out.  The query   *)
(* has a lower bound only, so a sample stamped after T is returned.        *)
(***************************************************************************)
InWindow(a) ==
  {r \in samples : /\ r.exp = a.exp
                   /\ \E i \in DOMAIN a.tags : a.tags[i] = r.tag
                   /\ clock - a.minutes <= r.ts
                   /\ r.ts <= clock}
C22_WindowBothEnds ==
  answer # Unused =>
    /\ {answer.rows[i] : i \in DOMAIN answer.rows} = InWindow(answer)
    /\ Len(answer.rows) = Cardinality(InWindow(answer))
    /\ \A i, j \in DOMAIN answer.rows : i < j => answer.rows[i].ts <= answer.rows[j].ts

(***************************************************************************)
(* sampler.py: main, from its start to the end of its first polling cycle. *)
(***************************************************************************)
\* what `import db` and ReactorOpcClient offer to the sampler
db_names ==
  {"DB_BACKEND", "SQLITE_PATH", "ensure_db_sqlite", "create_experiment_sqlite",
   "insert_sample_sqlite", "insert_calibration_sqlite", "ensure_db_pg",
   "create_experiment_pg", "insert_sample_pg", "insert_calibration_pg",
   "list_experiments", "list_tags", "load_timeseries", "list_calibrations",
   "ensure_db", "create_experiment", "insert_sample", "insert_calibration"}
ReactorOpcClient_names ==
  {"connect", "disconnect", "browse_address_space", "init_subscriptions", "read_snapshot",
   "write", "write_bulk", "call_method"}
\* sampler.py REACTORS and LOG_TAGS
REACTORS ==
  [R0 |-> [biomass_415 |-> nid(9), biomass_445 |-> nid(10), biomass_480 |-> nid(11),
           biomass_515 |-> nid(12), biomass_555 |-> nid(13), biomass_590 |-> nid(14),
           biomass_630 |-> nid(15), biomass_680 |-> nid(16), biomass_clear |-> nid(17),
           biomass_nir |-> nid(18), ph_pH |-> nid(3), do_ppm |-> nid(6),
           pwm0_method |-> nid(23), pwm0_time_on |-> nid(24), pwm0_time_off |-> nid(25),
           pwm0_lb |-> nid(26), pwm0_ub |-> nid(27), pwm0_setpoint |-> nid(28)]]
LOG_TAGS ==
  <<"biomass_415", "biomass_445", "biomass_480", "biomass_515", "biomass_555", "biomass_590",
    "biomass_630", "biomass_680", "biomass_clear", "biomass_nir", "ph_pH", "do_ppm",
    "pwm0_method", "pwm0_time_on", "pwm0_time_off", "pwm0_lb", "pwm0_ub", "pwm0_setpoint">>

\* The controller the sampler polls: a node holds a number or a text, or
\* cannot be read.  Four nodes vary, the others hold 0.
Unreadable == [unreadable |-> TRUE]
Varied == {nid(9), nid(3), nid(6), nid(23)}
Polled == {REACTORS[r][t] : r \in DOMAIN REACTORS, t \in {LOG_TAGS[i] : i \in DOMAIN LOG_TAGS}}
SamplerInit ==
  /\ InitWorker
  /\ IdleStore
  /\ IdleClient
  /\ IdleQuery
  /\ IdleDash
  /\ IdleFind
  /\ IdleDrift
  /\ \E f \in [Varied -> {Num(7), Str("manual"), Unreadable}] :
       plant = [n \in Polled |-> IF n \in Varied THEN f[n] ELSE Num(0)]
  /\ sampler_pc = "off"
  /\ persisted = {}

\* `val = await client.read(nodeid)`: what the attribute lookup, then the read gives
Raised == [raised |-> TRUE]
client_read(names, pl, nodeid) ==
  IF "read" \notin names THEN Raised
  ELSE IF nodeid \notin DOMAIN pl \/ pl[nodeid] = Unreadable THEN Raised
  ELSE pl[nodeid]
\* float(val)
float(v) == IF DOMAIN v = {"num"} THEN v ELSE Raised
\* the loop body up to the bulk insert: the rows of one cycle, a read or a
\* coercion that raises leaving its node out
RECURSIVE CycleRows(_, _, _, _)
CycleRows(names, pl, reactor, tags) ==
  IF tags = <<>> THEN <<>>
  ELSE LET tag == Head(tags)
           nodeid == REACTORS[reactor][tag]
           val == client_read(names, pl, nodeid)
           more == CycleRows(names, pl, reactor, Tail(tags))
       IN IF tag \notin DOMAIN REACTORS[reactor] THEN more
          ELSE IF val = Raised \/ float(val) = Raised THEN more
          ELSE << [reactor |-> reactor, tag |-> tag, nodeid |-> nodeid, value |-> float(val)] >>
               \o more
\* `if rows: try: db.insert_samples(rows) except Exception: ...`
Inserted_rows(names, rows) ==
  IF rows # <<>> /\ "insert_samples" \in names THEN {rows[i] : i \in DOMAIN rows} ELSE {}
\* sampler.main: db.init_db(), then the client, then the cycle
sampler_main ==
  /\ sampler_pc = "off"
  /\ IF "init_db" \notin db_names
       THEN /\ sampler_pc' = "raised"
            /\ UNCHANGED persisted
       ELSE /\ sampler_pc' = "sleep"
            /\ persisted' = persisted \cup
                 Inserted_rows(db_names, CycleRows(ReactorOpcClient_names, plant, "R0", LOG_TAGS))
  /\ UNCHANGED << mainVars, dbVars, apiVars, tsVars, dash, fm, sim, plant >>

SamplerNext == sampler_main
SamplerSpec == SamplerInit /\ [][SamplerNext]_vars

(***************************************************************************)
(* C23 as claimed: in one polling cycle the rows persisted are exactly one *)
(* row per configured node that can be read and whose value coerces to a   *)
(* number; a node with a textual value or a failed read contributes no row *)
(* and does not keep the rows of the other nodes from being persisted.     *)
(* The sampler calls db.init_db, client.read and db.insert_samples, none   *)
(* of which exists: it persists nothing.                                   *)
(***************************************************************************)
Numeric(n) == DOMAIN plant[n] = {"num"}
C23_OneRowPerNumericNode ==
  [][(sampler_pc = "off" /\ sampler_pc' # "off")
       => /\ {r.nodeid : r \in persisted'} = {n \in Polled : Numeric(n)}
          /\ \A r \in persisted' : r.value = plant[r.nodeid]
          /\ Cardinality(persisted') = Cardinality({n \in Polled : Numeric(n)})]_vars

(***************************************************************************)
(* C28: the worker's snapshot map changes only in a change-notification    *)
(* callback, in the step that completes a write successfully (which merges *)
(* the written mapping), and in the priming of a connect_browse; handling  *)
(* a read_snapshot/read_all, a call, an unknown kind or a write that fails *)
(* leaves every entry as it was.                                           *)
(***************************************************************************)
SnapshotChanges == heap'[latest_values'] # heap[latest_values]
\* the step delivers a notification to a client
C28_Callback == \E c \in DOMAIN notif : Len(notif'[c]) = Len(notif[c]) - 1
\* the step ends the handling of a request of this kind with this outcome
C28_Ends(kinds, ok) ==
  /\ Finishing
  /\ FinRid # 0
  /\ FinReq.kind \in kinds
  /\ NewReplies(FinReq.reply_q) # <<>>
  /\ NewReplies(FinReq.reply_q)[1].ok = ok
C28_WriteDone ==
  /\ C28_Ends({"write"}, TRUE)
  /\ heap'[latest_values'] = DictUpdate(heap[latest_values], PairsDict(FinReq.payload))
C28_Priming == C28_Ends({"connect_browse"}, TRUE)
C28_SnapshotFrame ==
  [][/\ SnapshotChanges => C28_Callback \/ C28_WriteDone \/ C28_Priming
     /\ (\/ C28_Ends({"read_snapshot", "read_all", "call", "bogus"}, TRUE)
         \/ C28_Ends(Kinds, FALSE)) => ~SnapshotChanges]_vars

\* C28 witness: a write has failed on a primed snapshot, which still holds the
\* actuator channel's value and not the one the write carried
C28_Witness ==
  \E c \in Callers :
    /\ ret[c] # NoResult
    /\ ~ret[c].ok
    /\ ret[c].error = "write failed"
    /\ ActuatorNode \in DOMAIN heap[latest_values]
    /\ heap[latest_values][ActuatorNode] = Num(1)
    /\ \E i \in DOMAIN finished : finished[i] # 0 /\ i > 1

(***************************************************************************)
(* app.py find_calibration_method, on texts taken as sequences of their    *)
(* characters.                                                             *)
(***************************************************************************)
MaxMethods == 3    \* entries of the methods dict
\* str.lower()
UpperCase == <<"A", "B", "C", "D", "E", "F", "G", "H", "I", "J", "K", "L", "M", "N", "O", "P", "Q", "R", "S", "T", "U", "V", "W", "X", "Y", "Z">>
LowerCase == <<"a", "b", "c", "d", "e", "f", "g", "h", "i", "j", "k", "l", "m", "n", "o", "p", "q", "r", "s", "t", "u", "v", "w", "x", "y", "z">>
lower(s) ==
  [i \in DOMAIN s |->
     IF \E k \in DOMAIN UpperCase : UpperCase[k] = s[i]
       THEN LowerCase[CHOOSE k \in DOMAIN UpperCase : UpperCase[k] = s[i]]
       ELSE s[i]]
\* `a in b` on str
Contains(b, a) == \E i \in 1..(Len(b) - Len(a) + 1) : SubSeq(b, i, i + Len(a) - 1) = a

calibration == <<"c", "a", "l", "i", "b", "r", "a", "t", "i", "o", "n">>
\* the names a methods dict may hold, and the sensor names asked for
MethodNames ==
  {<<"p", "h", ":", "c", "a", "l", "i", "b", "r", "a", "t", "i", "o", "n">>,
   <<"d", "o", ":", "c", "a", "l", "i", "b", "r", "a", "t", "i", "o", "n">>,
   <<"P", "H", ":", "C", "a", "l", "i", "b", "r", "a", "t", "i", "o", "n">>,
   <<"s", "e", "t", "_", "p", "a", "i", "r", "i", "n", "g">>}
SensorNames ==
  {<<"p", "h">>, <<"d", "o">>, <<"b", "i", "o", "m", "a", "s", "s">>, <<>>}
\* an entry of the dict is a dict of its own, or (guarded against) something else
MethodInfos == [reactor : {"R0", "R1"}, name : MethodNames] \cup {Str("n/a")}
\* the dict in insertion order: node id i holds the i-th entry
MethodDicts == UNION {[1..n -> MethodInfos] : n \in 0..MaxMethods}
NoMethod == [nid |-> 0, info |-> NoneVal]

FindInit ==
  /\ InitWorker
  /\ IdleStore
  /\ IdleClient
  /\ IdleQuery
  /\ IdleSampler
  /\ IdleDash
  /\ IdleDrift
  /\ fm \in [methods : MethodDicts, reactor : {"R0"}, sensor_name : SensorNames, out : {Unused}]

\* _method_iter: the entries that are dicts, in order
_method_iter(methods) == SelectSeq([i \in DOMAIN methods |-> [nid |-> i, info |-> methods[i]]],
                                   LAMBDA e : DOMAIN e.info = {"reactor", "name"})
\* the first of the entries that passed a test, if any
FirstOf(passing) == IF passing = <<>> THEN NoMethod ELSE Head(passing)
\* a lookup without the fallback loop
find_calibration_method_exact(methods, reactor, sensor_name) ==
  LET s == lower(sensor_name)
      Matches(e) == /\ e.info.reactor = reactor
                    /\ Contains(lower(e.info.name), calibration)
                    /\ s # <<>> /\ Contains(lower(e.info.name), s)
  IN FirstOf(SelectSeq(_method_iter(methods), Matches))
\* find_calibration_method
find_calibration_method(methods, reactor, sensor_name) ==
  LET s == lower(sensor_name)
      Matches(e) == /\ e.info.reactor = reactor
                    /\ Contains(lower(e.info.name), calibration)
                    /\ s # <<>> /\ Contains(lower(e.info.name), s)
      Calibrates(e) == e.info.reactor = reactor /\ Contains(lower(e.info.name), calibration)
      first == FirstOf(SelectSeq(_method_iter(methods), Matches))
  IN IF first # NoMethod THEN first ELSE FirstOf(SelectSeq(_method_iter(methods), Calibrates))
\* the lookup run_calibration relies on
find_call ==
  /\ fm.out = Unused
  /\ fm' = [fm EXCEPT !.out = find_calibration_method(fm.methods, fm.reactor, fm.sensor_name)]
  /\ UNCHANGED << mainVars, dbVars, apiVars, tsVars, samplerVars, dash, sim >>

FindNext == find_call
FindSpec == FindInit /\ [][FindNext]_vars

\* C25: find_calibration_method returns a calibration method of the reactor
\* whose name contains the sensor's group name when there is one; otherwise
\* the first calibration method registered for the reactor; and nothing only
\* when the reactor has no calibration method.  It never returns a method of
\* another reactor or one whose name does not contain "calibration".
\* (Names are compared as the function compares them, in lower case.)
IsCalibrationOf(i) ==
  /\ DOMAIN fm.methods[i] = {"reactor", "name"}
  /\ fm.methods[i].reactor = fm.reactor
  /\ Contains(lower(fm.methods[i].name), calibration)
NamesSensor(i) == Contains(lower(fm.methods[i].name), lower(fm.sensor_name))
CalibrationsOf == {i \in DOMAIN fm.methods : IsCalibrationOf(i)}
C25_CalibrationLookup ==
  fm # Unused /\ fm.out # Unused =>
    /\ fm.out = NoMethod <=> CalibrationsOf = {}
    /\ fm.out # NoMethod =>
         /\ fm.out.nid \in CalibrationsOf
         /\ fm.out.info = fm.methods[fm.out.nid]
         /\ IF \E i \in CalibrationsOf : NamesSensor(i)
              THEN NamesSensor(fm.out.nid)
              ELSE \A i \in CalibrationsOf : fm.out.nid <= i

\* C25 witness: only do:calibration is registered for the reactor, biomass is
\* asked for, and do:calibration is returned
C25_Witness ==
  /\ fm # Unused
  /\ fm.out # Unused
  /\ fm.sensor_name = <<"b", "i", "o", "m", "a", "s", "s">>
  /\ CalibrationsOf # {}
  /\ \A i \in CalibrationsOf : fm.methods[i].name = <<"d", "o", ":">> \o calibration
  /\ fm.out.nid \in CalibrationsOf

(***************************************************************************)
(* mock_server.py: the simulated controller's drift loop.  Values are in   *)
(* thousandths (round(.., 3)), random draws in half thousandths so that     *)
(* rounding has something to round.                                        *)
(***************************************************************************)
MaxCycles == 2       \* drift cycles
MaxSimWrites == 1    \* client writes to the simulated controller
SimBiomass == {"biomass:415", "biomass:nir"}
SimNodes == {"ph:pH", "ph:oC", "do:ppm", "do:oC"} \cup SimBiomass
\* build_reactor's initial values
SimInitial ==
  [n \in SimNodes |->
     IF n = "ph:pH" THEN 7000
     ELSE IF n \in {"ph:oC", "do:oC"} THEN 25000
     ELSE IF n = "do:ppm" THEN 8000
     ELSE 0]
DriftInit ==
  /\ InitWorker
  /\ IdleStore
  /\ IdleClient
  /\ IdleQuery
  /\ IdleSampler
  /\ IdleDash
  /\ IdleFind
  /\ sim = [val |-> SimInitial, cycles |-> 0, writes |-> 0, temp_written |-> FALSE]

\* round(x, 3) of x given in half thousandths; a tie falls as the binary
\* value of x lies
round3(h, up) ==
  IF h % 2 = 0 THEN h \div 2
  ELSE IF up THEN (h + 1) \div 2 ELSE (h - 1) \div 2
\* random.random() * 0.2, in [0, 0.2)
bio_drift == {0, 399}
\* (random.random() - 0.5) * 0.05, taken for pH
ph_drift_as_bump == {-50, 49}
\* (random.random() - 0.5) * 0.02, in [-0.01, 0.01)
ph_drift == {-20, 19}
\* (random.random() - 0.5) * 0.1
do_drift == {99}
\* (random.random() - 0.5) * 0.05
bump_drift == {-50, 49}
\* a reading moved by one draw and rounded
drifted(v, drift) == {round3(2 * v + d, up) : d \in drift, up \in BOOLEAN}
\* one bump drawn for each temperature
temperatures_apart(t1, t2) ==
  {<< round3(2 * t1 + b1, u1), round3(2 * t2 + b2, u2) >> :
     b1 \in bump_drift, b2 \in bump_drift, u1 \in BOOLEAN, u2 \in BOOLEAN}
\* the two temperature writes of a cycle: one bump, added to each reading
temperatures(t1, t2) ==
  {p \in {<< round3(2 * t1 + b, u1), round3(2 * t2 + b, u2) >> :
            b \in bump_drift, u1 \in BOOLEAN, u2 \in BOOLEAN} :
     t1 = t2 => p[1] = p[2]}
\* one pass of update_loop over a reactor
update_loop_cycle ==
  /\ sim # Unused
  /\ sim.cycles < MaxCycles
  /\ \E bio_415 \in drifted(sim.val["biomass:415"], bio_drift),
        bio_nir \in drifted(sim.val["biomass:nir"], bio_drift),
        pH \in drifted(sim.val["ph:pH"], ph_drift),
        do \in drifted(sim.val["do:ppm"], do_drift),
        t \in temperatures(sim.val["ph:oC"], sim.val["do:oC"]) :
       sim' = [sim EXCEPT
                 !.cycles = @ + 1,
                 !.val = [n \in SimNodes |->
                            IF n = "biomass:415" THEN bio_415
                            ELSE IF n = "biomass:nir" THEN bio_nir
                            ELSE IF n = "ph:pH" THEN pH
                            ELSE IF n = "do:ppm" THEN do
                            ELSE IF n = "ph:oC" THEN t[1]
                            ELSE t[2]]]
  /\ UNCHANGED << mainVars, dbVars, apiVars, tsVars, samplerVars, dash, fm >>

\* a client's write to one of the writable variables
SimWriteTargets == {"ph:pH", "ph:oC", "biomass:415"}
SimWriteValues == {26500}
sim_client_write ==
  /\ sim # Unused
  /\ sim.writes < MaxSimWrites
  /\ \E n \in SimWriteTargets, v \in SimWriteValues :
       sim' = [sim EXCEPT !.val[n] = v,
                          !.writes = @ + 1,
                          !.temp_written = @ \/ n \in {"ph:oC", "do:oC"}]
  /\ UNCHANGED << mainVars, dbVars, apiVars, tsVars, samplerVars, dash, fm >>

DriftNext == update_loop_cycle \/ sim_client_write
DriftSpec == DriftInit /\ [][DriftNext]_vars

\* C29: in a drift cycle without a client write in it, each biomass channel's
\* new value is at least its previous value and at most 0.2 above it, and the
\* pH channel's new value is within 0.01 of its previous value.
C29_Cycle == sim.cycles' = sim.cycles + 1 /\ sim.writes' = sim.writes
C29_DriftBounds ==
  [][C29_Cycle =>
       /\ \A n \in SimBiomass :
            sim.val[n] <= sim.val'[n] /\ sim.val'[n] <= sim.val[n] + 200
       /\ sim.val["ph:pH"] - 10 <= sim.val'["ph:pH"]
       /\ sim.val'["ph:pH"] <= sim.val["ph:pH"] + 10]_vars

\* C29 witness: after one cycle a biomass channel has gained the full 0.2 and
\* pH has lost the full 0.01
C29_Witness ==
  /\ sim # Unused
  /\ sim.cycles = 1
  /\ sim.writes = 0
  /\ sim.val["biomass:415"] = 200
  /\ sim.val["biomass:nir"] = 0
  /\ sim.val["ph:pH"] = 6990

\* C30: while no client has written a temperature channel, ph:oC and do:oC
\* hold equal values after every completed drift cycle; both start at 25.0.
C30_TemperaturesEqual ==
  sim # Unused /\ ~sim.temp_written =>
    /\ sim.val["ph:oC"] = sim.val["do:oC"]
    /\ sim.cycles = 0 => sim.val["ph:oC"] = 25000

\* C30 witness: two cycles done, another channel written meanwhile, the
\* temperatures have moved off 25.0 and are still equal
C30_Witness ==
  /\ sim # Unused
  /\ sim.cycles = MaxCycles
  /\ sim.writes = 1
  /\ ~sim.temp_written
  /\ sim.val["ph:oC"] = 24950
  /\ sim.val["do:oC"] = 24950

(***************************************************************************)
(* app.py: the dashboard.  Streamlit runs the script from top to bottom    *)
(* once per widget event; the worker is taken by what it answers to a      *)
(* request (opc_worker.py) and the controller by what its methods return   *)
(* (mock_server.py).  Calibration points and values are in hundredths.     *)
(***************************************************************************)
MaxRuns == 3    \* script runs
ReactorTabs == {"R0", "R1"}
METHOD_TO_INT == [manual |-> 0, timer |-> 1, on_boundaries |-> 2, pid |-> 3]
Text_set_pairing == <<"s", "e", "t", "_", "p", "a", "i", "r", "i", "n", "g">>
Text_unpair == <<"u", "n", "p", "a", "i", "r">>
Text_ph == <<"p", "h">>
Tag(reactor, name, channel) == [reactor |-> reactor, name |-> name, channel |-> channel]
\* What browse_address_space hands over for a controller, R0 with base 1:
\* the simulated one, and one whose pwm0 has an empty ControlMethod and
\* which has no methods.  _browse_reactor registers set_pairing and unpair
\* and no other method; `served` are the methods the controller has.
BrowsedMappings ==
  [simulated |->
     [sensor_vars |-> (nid(3) :> Tag("R0", Text_ph, "pH")),
      actuator_vars |-> (nid(34) :> Tag("R0", "pwm0", "curr_value"))
                          @@ (nid(35) :> Tag("R0", "pwm0", "method"))
                          @@ (nid(40) :> Tag("R0", "pwm0", "setpoint")),
      methods |-> << [reactor |-> "R0", name |-> Text_set_pairing],
                     [reactor |-> "R0", name |-> Text_unpair] >>,
      served |-> << Text_set_pairing, Text_unpair, Text_ph \o <<":">> \o calibration >>],
   bare |->
     [sensor_vars |-> (nid(3) :> Tag("R0", Text_ph, "pH")),
      actuator_vars |-> (nid(34) :> Tag("R0", "pwm0", "curr_value")),
      methods |-> << >>,
      served |-> << >>]]

NoRun == [none |-> TRUE]
DashInit ==
  /\ InitWorker
  /\ IdleStore
  /\ IdleClient
  /\ IdleQuery
  /\ IdleSampler
  /\ IdleFind
  /\ IdleDrift
  /\ dash \in [ctl : DOMAIN BrowsedMappings, runs : {0}, has_worker : {FALSE},
               wclient : {"none"}, loaded : {FALSE}, run : {NoRun}]

\* a method of the simulated controller: set_pairing, unpair, or _cal of make_cal
mock_method(name, args) ==
  IF name \in {Text_set_pairing, Text_unpair} THEN << TRUE >>
  ELSE << "OK:ph", 100, IF Len(args) > 1 THEN args[2] ELSE 0 >>

\* a reply of the worker
Replied(ok, data) == [ok |-> ok, data |-> data]
\* _rpc: OpcWorker.request and what the worker does with the request.  A
\* stopped worker takes nothing off its queue and the request times out.
OpcWorker_request(ctl, r, kind, payload, answers) ==
  LET r1 == [r EXCEPT !.sent = Append(@, [kind |-> kind, payload |-> payload,
                                          stopped |-> r.stopped])]
      failure == [r1 EXCEPT !.res = Replied(FALSE, NoneVal)]
  IN IF r.stopped THEN failure
     ELSE IF kind = "connect_browse"
       THEN IF answers
              THEN [r1 EXCEPT !.wclient = "up", !.res = Replied(TRUE, NoneVal)]
              ELSE [failure EXCEPT !.wclient = "down"]
     ELSE IF kind = "read_snapshot" THEN [r1 EXCEPT !.res = Replied(TRUE, NoneVal)]
     ELSE IF r.wclient = "none" THEN failure
     ELSE IF kind = "write"
       THEN IF r.wclient = "up" /\ answers
              THEN [r1 EXCEPT !.res = Replied(TRUE, payload)] ELSE failure
     ELSE IF DOMAIN payload # {"str"} THEN failure
     ELSE IF r.wclient = "up" /\ answers
       THEN [r1 EXCEPT !.reached = Append(@, [method |-> payload.str, args |-> << >>]),
                       !.res = Replied(TRUE, mock_method(BrowsedMappings[ctl].served[payload.str],
                                                         << >>))]
     ELSE failure

\* rpc_call
rpc_call(ctl, r, method_nodeid, args, answers) ==
  LET res == OpcWorker_request(ctl, r, "call", [nodeid |-> method_nodeid, args |-> args], answers)
  IN IF res.res.ok THEN res
     ELSE OpcWorker_request(ctl, res, "call", Str(method_nodeid), answers)

\* Start worker once
start_worker_once(r) ==
  IF r.has_worker THEN r ELSE [r EXCEPT !.has_worker = TRUE, !.wclient = "none"]

\* Top controls
top_controls(ctl, r, ev, answers) ==
  IF ev.kind = "connect"
    THEN LET res == OpcWorker_request(ctl, r, "connect_browse", NoneVal, answers)
         IN IF res.res.ok THEN [res EXCEPT !.loaded = TRUE] ELSE res
  ELSE IF ev.kind = "refresh" THEN OpcWorker_request(ctl, r, "read_snapshot", NoneVal, answers)
  ELSE IF ev.kind = "stop"
    THEN [r EXCEPT !.stopped = TRUE, !.has_worker = FALSE, !.wclient = "none"]
  ELSE r

\* If auto-refresh is ON, refresh snapshot
auto_refresh(ctl, r, auto_on, answers) ==
  IF auto_on /\ r.loaded THEN OpcWorker_request(ctl, r, "read_snapshot", NoneVal, answers) ELSE r

\* act_by_name of a reactor tab: actuator name -> channel -> node id
act_by_name(actuator_vars, reactor) ==
  LET mine == {n \in DOMAIN actuator_vars :
                 actuator_vars[n].reactor = reactor /\ actuator_vars[n].name \in PwmGroups}
  IN [a \in {actuator_vars[n].name : n \in mine} |->
        [ch \in {actuator_vars[n].channel : n \in {k \in mine : actuator_vars[k].name = a}} |->
           CHOOSE n \in mine : actuator_vars[n].name = a /\ actuator_vars[n].channel = ch]]
\* sensor_options of a reactor tab
sensor_options(sensor_vars, reactor) ==
  {<< sensor_vars[n].name, sensor_vars[n].channel >> :
     n \in {k \in DOMAIN sensor_vars :
              sensor_vars[k].reactor = reactor /\ sensor_vars[k].name \in SensorNames \ {<< >>}}}

\* the number fields of the actuator form, in the order they are taken
NumberFields == << "time_on", "time_off", "lb", "ub", "setpoint" >>
\* the writes a submitted form makes of the node ids it finds
FormWrites(nodes, ev) ==
  (IF "method" \in DOMAIN nodes
     THEN << << nodes["method"], Num(METHOD_TO_INT[ev.method_label]) >> >> ELSE << >>)
  \o [i \in 1..Len(SelectSeq(NumberFields, LAMBDA f : f \in DOMAIN nodes)) |->
        << nodes[SelectSeq(NumberFields, LAMBDA f : f \in DOMAIN nodes)[i]], Num(ev.number) >>]
\* a form that sends what it has
write_form_unchecked(ctl, r, ev, answers) ==
  OpcWorker_request(ctl, r, "write",
                    FormWrites(act_by_name(BrowsedMappings[ctl].actuator_vars, ev.reactor)[ev.act_name], ev),
                    answers)
\* if submit
write_form(ctl, r, ev, answers) ==
  LET writes == FormWrites(act_by_name(BrowsedMappings[ctl].actuator_vars, ev.reactor)[ev.act_name], ev)
  IN IF writes = << >> THEN [r EXCEPT !.refused = TRUE]
     ELSE OpcWorker_request(ctl, r, "write", writes, answers)

\* find_method_nodeid
find_method_nodeid(methods, reactor, name_exact) ==
  LET Named(e) == e.info.reactor = reactor /\ e.info.name = name_exact
  IN FirstOf(SelectSeq(_method_iter(methods), Named)).nid
\* Call set_pairing, Call unpair
method_button(ctl, r, ev, answers) ==
  LET found == find_method_nodeid(BrowsedMappings[ctl].methods, ev.reactor,
                                  IF ev.kind = "set_pairing" THEN Text_set_pairing ELSE Text_unpair)
  IN IF found = NoMethod.nid THEN [r EXCEPT !.refused = TRUE]
     ELSE rpc_call(ctl, r, found, << >>, answers)

\* run_calibration
run_calibration(ctl, r, ev, answers) ==
  LET cal == find_calibration_method(BrowsedMappings[ctl].methods, ev.reactor, ev.sel[1])
      res == rpc_call(ctl, r, cal.nid, << ev.point, ev.value >>, answers)
      out == res.res.data
      parsed == Len(out) >= 3
  IN IF cal = NoMethod THEN [r EXCEPT !.refused = TRUE]
     ELSE IF ~res.res.ok THEN res
     ELSE [res EXCEPT !.stored =
             Append(@, [reactor |-> ev.reactor, sensor |-> ev.sel, cp |-> ev.cp,
                        point |-> ev.point, value |-> ev.value,
                        status |-> IF parsed THEN out[1] ELSE "str(out)",
                        quality |-> IF parsed THEN out[2] ELSE 0,
                        returned_value |-> IF parsed THEN out[3] ELSE ev.value,
                        method_nodeid |-> cal.nid])]

\* render_reactor_tab, for the tab the event is in
render_reactor_tab(ctl, r, ev, answers) ==
  IF ~r.loaded THEN r
  ELSE IF ev.kind = "write" THEN write_form(ctl, r, ev, answers)
  ELSE IF ev.kind \in {"set_pairing", "unpair"} THEN method_button(ctl, r, ev, answers)
  ELSE IF ev.kind = "calibrate" THEN run_calibration(ctl, r, ev, answers)
  ELSE r

\* The widget events the page offers: the top controls and a rerun always,
\* the widgets of the reactor tabs once mappings are loaded.  A calibration
\* is the operator at the CP1 tab of a sensor with a point and a value.
DashEvents(ctl, loaded) ==
  {[kind |-> k] : k \in {"rerun", "connect", "refresh", "stop"}}
  \cup (IF ~loaded THEN {}
        ELSE {[kind |-> "write", reactor |-> t, act_name |-> a, method_label |-> "pid",
               number |-> 50] :
                t \in {x \in ReactorTabs :
                         DOMAIN act_by_name(BrowsedMappings[ctl].actuator_vars, x) # {}},
                a \in PwmGroups \cap UNION {DOMAIN act_by_name(BrowsedMappings[ctl].actuator_vars, x) :
                                              x \in ReactorTabs}}
             \cup {[kind |-> k, reactor |-> t] : k \in {"set_pairing", "unpair"}, t \in ReactorTabs}
             \cup {[kind |-> "calibrate", reactor |-> t, sel |-> s, cp |-> "cp1",
                    point |-> 700, value |-> 695] :
                     t \in ReactorTabs,
                     s \in UNION {sensor_options(BrowsedMappings[ctl].sensor_vars, x) :
                                    x \in ReactorTabs}})

\* one run of the script
script_run ==
  /\ dash # Unused
  /\ dash.runs < MaxRuns
  /\ \E auto_on \in BOOLEAN, answers \in BOOLEAN, ev \in DashEvents(dash.ctl, dash.loaded) :
       /\ ev.kind = "write" => ev.act_name \in DOMAIN act_by_name(BrowsedMappings[dash.ctl].actuator_vars, ev.reactor)
       /\ ev.kind = "calibrate" => ev.sel \in sensor_options(BrowsedMappings[dash.ctl].sensor_vars, ev.reactor)
       /\ LET r0 == [has_worker |-> dash.has_worker, wclient |-> dash.wclient,
                     loaded |-> dash.loaded, stopped |-> FALSE, sent |-> << >>,
                     reached |-> << >>, stored |-> << >>, refused |-> FALSE,
                     res |-> Replied(FALSE, NoneVal)]
              top == auto_refresh(dash.ctl, top_controls(dash.ctl, start_worker_once(r0), ev, answers),
                                  auto_on, answers)
              r == render_reactor_tab(dash.ctl, top, ev, answers)
          IN dash' = [ctl |-> dash.ctl, runs |-> dash.runs + 1, has_worker |-> r.has_worker,
                      wclient |-> r.wclient, loaded |-> r.loaded,
                      run |-> [ev |-> ev, auto_on |-> auto_on, answers |-> answers,
                               connected |-> top.wclient = "up" /\ ~top.stopped,
                               sent |-> r.sent, reached |-> r.reached, stored |-> r.stored,
                               refused |-> r.refused]]
  /\ UNCHANGED << mainVars, dbVars, apiVars, tsVars, samplerVars, fm, sim >>

DashNext == script_run
DashSpec == DashInit /\ [][DashNext]_vars

Ran(kind) == dash # Unused /\ dash.run # NoRun /\ dash.run.ev.kind = kind
SentKinds == {dash.run.sent[i].kind : i \in DOMAIN dash.run.sent}

\* C24: when the operator runs a calibration with point p and value v, the
\* call that reaches the controller carries p and v as its two arguments, and
\* on success the stored calibration record holds the device's status,
\* quality 1.0 and an output value equal to v, with a method node id.
C24_CalibrationCarried ==
  Ran("calibrate") /\ dash.run.connected /\ dash.run.answers =>
    /\ \E i \in DOMAIN dash.run.reached :
         dash.run.reached[i].args = << dash.run.ev.point, dash.run.ev.value >>
    /\ \E i \in DOMAIN dash.run.stored :
         /\ dash.run.stored[i].status = "OK:ph"
         /\ dash.run.stored[i].quality = 100
         /\ dash.run.stored[i].returned_value = dash.run.ev.value
         /\ dash.run.stored[i].method_nodeid # NoMethod.nid

\* C26: a submitted actuator form whose node-id-to-value mapping is empty
\* sends no write request, and a set_pairing, unpair or calibration action for
\* a reactor whose discovery result has no such method sends no call request.
C26_Methods == BrowsedMappings[dash.ctl].methods
C26_Actuators == BrowsedMappings[dash.ctl].actuator_vars
C26_NoUnresolvedRequest ==
  /\ (/\ Ran("write")
      /\ \A n \in DOMAIN C26_Actuators :
           (C26_Actuators[n].reactor = dash.run.ev.reactor
              /\ C26_Actuators[n].name = dash.run.ev.act_name)
             => C26_Actuators[n].channel \notin {"method"} \cup Range(NumberFields))
       => "write" \notin SentKinds
  /\ \A k \in {"set_pairing", "unpair"} :
       (/\ Ran(k)
        /\ \A i \in DOMAIN C26_Methods :
             ~(C26_Methods[i].reactor = dash.run.ev.reactor
                 /\ C26_Methods[i].name = (IF k = "unpair" THEN Text_unpair ELSE Text_set_pairing)))
         => "call" \notin SentKinds
  /\ (/\ Ran("calibrate")
      /\ \A i \in DOMAIN C26_Methods :
           ~(C26_Methods[i].reactor = dash.run.ev.reactor
               /\ Contains(lower(C26_Methods[i].name), calibration)))
       => "call" \notin SentKinds

\* C26 witness: the form of a pwm0 that has no control channel was submitted
\* with auto-refresh on: the snapshot request went out, no write did
C26_Witness ==
  /\ Ran("write")
  /\ dash.ctl = "bare"
  /\ dash.run.refused
  /\ dash.run.auto_on
  /\ SentKinds = {"read_snapshot"}

\* C27: after "Stop worker / Disconnect" the dashboard submits no further
\* request to the stopped worker.
C27_NothingToStoppedWorker ==
  dash # Unused /\ dash.run # NoRun =>
    \A i \in DOMAIN dash.run.sent : ~dash.run.sent[i].stopped

(***************************************************************************)
(* C31: at most one protocol session opened by the worker is connected;    *)
(* once a connect_browse has replaced the worker's client, the client it   *)
(* replaced is disconnected and delivers no notification into the          *)
(* worker's snapshot.                                                      *)
(***************************************************************************)
C31_OneSession ==
  /\ Cardinality({c \in DOMAIN clients : clients[c].connected}) <= 1
  /\ \A c \in DOMAIN clients :
       (c # client /\ client # 0) => ~(clients[c].connected /\ clients[c]._subscription)

(***************************************************************************)
(* C32: a connect_browse that fails leaves the worker's client reference,  *)
(* its stored mappings and its snapshot as they were before the request.   *)
(* The client a request creates did not exist before it, so after a failed *)
(* request neither the client reference nor the mappings may be that       *)
(* client's.                                                               *)
(***************************************************************************)
C32_FailedTask == CHOOSE t \in tasks : t.req.rid = FinRid
C32_FailedConnectLeavesState ==
  [][C28_Ends({"connect_browse"}, FALSE) =>
       /\ client' # C32_FailedTask.cl
       /\ mappings' # C32_FailedTask.cl
       /\ heap'[latest_values'] = heap[latest_values]]_vars

(***************************************************************************)
(* C33: once the controller's values have stopped changing and every       *)
(* pending notification and queued request has been processed (the        *)
(* client's own tables then hold the controller's values), the worker's    *)
(* snapshot holds, for every subscribed node, the value the controller     *)
(* holds.                                                                  *)
(***************************************************************************)
C33_Settled ==
  /\ _req_q = <<>>
  /\ tasks = {}
  /\ \A c \in DOMAIN notif : notif[c] = <<>>
  /\ client # 0
  /\ clients[client].connected
  /\ clients[client]._subscription
  \* the client's own tables are up to date with the controller
  /\ \A n \in Tables(clients[client]) : read_snapshot(clients[client])[n] = ctrl[n]
C33_SnapshotConverges ==
  C33_Settled =>
    \A n \in Tables(clients[client]) :
      n \in DOMAIN heap[latest_values] /\ heap[latest_values][n] = ctrl[n]

(***************************************************************************)
(* C34: the mappings the dashboard stored from a connect_browse reply do   *)
(* not change through anything on the worker's side; they change only when *)
(* the dashboard stores a newer reply.                                     *)
(***************************************************************************)
C34_StoredTables(cls) ==
  [sensor_vars |-> cls[session.mappings].sensor_vars,
   actuator_vars |-> cls[session.mappings].actuator_vars,
   methods |-> cls[session.mappings].methods]
C34_MappingsPointInTime ==
  [][(session.mappings # 0 /\ session'.mappings = session.mappings) =>
       C34_StoredTables(clients') = C34_StoredTables(clients)]_vars

(***************************************************************************)
(* C35: right after a write request has succeeded, the snapshot entry of   *)
(* every written node equals the value the controller stores for it (3     *)
(* after the label "pid" was written to a method channel).                 *)
(***************************************************************************)
C35_SnapshotAfterWrite ==
  [][C28_Ends({"write"}, TRUE) =>
       \A n \in DOMAIN PairsDict(FinReq.payload) :
         /\ n \in DOMAIN heap'[latest_values']
         /\ heap'[latest_values'][n] = ctrl'[n]]_vars

(***************************************************************************)
(* C38: a worker stopped with stop() and started again with start() serves *)
(* requests again.  start() clears the stop event, so a cleared event      *)
(* after a stop() means the worker was restarted and not stopped since:    *)
(* its loop must then be running.                                          *)
(***************************************************************************)
C38_RestartedWorkerRuns ==
  (stops > 0 /\ ~_stop) => wpc # "off"

(***************************************************************************)
(* C36: every method the controller exposes on a reactor is in the methods *)
(* table of a connected (hence browsed) client, under that reactor and     *)
(* under its browse name.                                                   *)
(***************************************************************************)
C36_ExposedMethods ==
  {n \in DOMAIN space : space[n].cls = "Method" /\ space[n].parent \in DOMAIN space
                          /\ space[space[n].parent].parent = ObjectsFolder}
C36_MethodsBrowsed ==
  rc.connected =>
    \A n \in C36_ExposedMethods :
      /\ n \in DOMAIN rc.methods
      /\ rc.methods[n].name = Joined(space[n].name)
      /\ rc.methods[n].reactor = Joined(space[space[n].parent].name)

(***************************************************************************)
(* C37: a sample row is stored in the backend that holds its experiment    *)
(* row.  The caller creates an experiment and then inserts a sample under  *)
(* the id it got back: the sample must be written to the backend the       *)
(* experiment was written to.                                              *)
(***************************************************************************)
C37_ExperimentCreated ==
  last_op.module = "db_pg" /\ last_op.op = "create_experiment" /\ ~last_op.raised
C37_SampleStored ==
  last_op.module = "db_pg" /\ last_op.op = "insert_sample" /\ ~last_op.raised
C37_SampleWithItsExperiment ==
  [][(C37_ExperimentCreated /\ OpStep /\ C37_SampleStored') =>
       last_op'.backend = last_op.backend]_vars

(***************************************************************************)
(* The static registry of R0's variables.                                  *)
(***************************************************************************)
VariableInfo(reactor, kind, group, channel, nodeid) ==
  [reactor |-> reactor, kind |-> kind, group |-> group, channel |-> channel, nodeid |-> nodeid]
\* variable_map.reactor_map_R0
reactor_map_R0 ==
  LET sensors == << <<3, "ph", "pH">>, <<4, "ph", "oC">>, <<6, "do", "ppm">>, <<7, "do", "oC">> >>
      pwm0 == <<"method", "time_on", "time_off", "lb", "ub", "setpoint">>
  IN DictUpdate(
       DictUpdate(
         [n \in {nid(sensors[k][1]) : k \in 1..4} |->
            LET s == sensors[CHOOSE k \in 1..4 : nid(sensors[k][1]) = n]
            IN VariableInfo("R0", "sensor", s[2], s[3], n)],
         [n \in {nid(8 + k) : k \in 1..10} |->
            VariableInfo("R0", "sensor", "biomass",
                         biomass_channels[CHOOSE k \in 1..10 : nid(8 + k) = n], n)]),
       [n \in {nid(22 + k) : k \in 1..6} |->
          VariableInfo("R0", "actuator", "pwm0", pwm0[CHOOSE k \in 1..6 : nid(22 + k) = n], n)])

(***************************************************************************)
(* C39: every node id of the R0 registry, and of the sampler's R0 map, is  *)
(* a variable of the simulated controller, and its reactor, group and      *)
(* channel there are the ones the registry records (for the sampler: the   *)
(* ones its tag names).                                                    *)
(***************************************************************************)
\* where the controller has variable n: a sensor variable is named
\* reactor:group:channel; a pwm variable hangs under the pwm object or its
\* ControlMethod object and is named by its channel
C39_Place(n) ==
  LET nm == space[n].name
      par == space[n].parent
      pwm == IF space[par].name = <<"ControlMethod">> THEN space[par].parent ELSE par
  IN IF Len(nm) = 3 THEN [reactor |-> nm[1], group |-> nm[2], channel |-> nm[3]]
     ELSE [reactor |-> space[pwm].name[1], group |-> Last(space[pwm].name), channel |-> nm[1]]
C39_IsVariable(n) == n \in DOMAIN space /\ space[n].cls = "Variable"
C39_StaticMapsAgree ==
  /\ \A n \in DOMAIN reactor_map_R0 :
       /\ C39_IsVariable(n)
       /\ C39_Place(n) = [reactor |-> reactor_map_R0[n].reactor, group |-> reactor_map_R0[n].group,
                          channel |-> reactor_map_R0[n].channel]
  /\ \A tag \in DOMAIN REACTORS.R0 :
       /\ C39_IsVariable(REACTORS.R0[tag])
       /\ C39_Place(REACTORS.R0[tag]).reactor = "R0"
       /\ tag = C39_Place(REACTORS.R0[tag]).group \o "_" \o C39_Place(REACTORS.R0[tag]).channel

====
